---- MODULE Spec2Model ----
(***************************************************************************)
(* Scoring and ranking engine of the PJC 2014 tournament                   *)
(* (pjc/tournament.py): score variants, Round, the ranking-points          *)
(* function and the Tournament aggregation, and the robotics score editor  *)
(* of the administration pages (pjc/web/admin.py).                         *)
(*                                                                         *)
(* The specifications share the variables below:                           *)
(*   SpecRank   - get_ranking_points as a pure function of its arguments;  *)
(*   SpecScore  - evaluate() as a pure function of a score;                *)
(*   SpecRound  - one Round object driven by add/clear_team_score;         *)
(*   Spec       - a Tournament driven by its mutation surface;             *)
(*   SpecReload - the Tournament of Spec, also saved and loaded;           *)
(*   SpecRoster - the roster of a Tournament: add_team and get_team;       *)
(*   SpecQuery  - a Tournament whose entries are set, cleared and queried; *)
(*   SpecOrder  - get_ranking_points on lists short enough to rearrange;   *)
(*   SpecReport - Tournaments of three and four Rounds read by             *)
(*                get_completion_status and get_compiled_scores;           *)
(*   SpecBonus  - a Tournament of teams of far apart scholar levels;       *)
(*   SpecRestore- from_dict and load_teams on a Tournament in use;         *)
(*   SpecFrame  - set and clear with accepted and rejected scores;         *)
(*   SpecEditor - the robotics score editors of web/admin.py.              *)
(* A specification holds the variables it does not use at their idle       *)
(* values.                                                                 *)
(***************************************************************************)
EXTENDS Integers, Sequences, FiniteSets, TLC

VARIABLES
    rk_input,               \* get_ranking_points: argument score_points
    rk_count,               \* get_ranking_points: argument team_count
    rk_result,              \* get_ranking_points: returned list
    rk_done,                \* the call has returned
    round_,                 \* a Round object: [score_type, scores]
    ret,                    \* the last call: [op, num, arg, exc]
    teams,                  \* Tournament._teams
    team_count,             \* Tournament._team_count
    team_numbers,           \* Tournament._team_numbers
    robotics_rounds,        \* Tournament._robotics_rounds
    research_evaluations,   \* Tournament._research_evaluations
    jury_evaluations,       \* Tournament._jury_evaluations
    planning                \* Tournament._planning

rank_vars == <<rk_input, rk_count, rk_result, rk_done>>
round_vars == <<round_, ret>>
tournament_vars == <<teams, team_count, team_numbers, robotics_rounds,
                     research_evaluations, jury_evaluations, planning>>
vars == <<rk_input, rk_count, rk_result, rk_done, round_, ret,
          teams, team_count, team_numbers, robotics_rounds,
          research_evaluations, jury_evaluations, planning>>

(***************************************************************************)
(* Bounds of the model.                                                    *)
(***************************************************************************)
\* team numbers offered to get_ranking_points are 1..MaxRankTeams
MaxRankTeams == 4

\* raw points offered to get_ranking_points
RawPoints == {10, 30, 50}

\* team numbers offered to the operations of a single Round are
\* -1 .. MaxRoundTeam; team counts offered to its queries 0 .. MaxRoundTeam + 1
MaxRoundTeam == 2

(***************************************************************************)
(* Generic helpers.                                                        *)
(***************************************************************************)
Range(s) == {s[i] : i \in DOMAIN s}

\* the value Python's None takes where the code compares it with a number
None == <<>>
Some(v) == <<v>>

\* dict(list_of_pairs).get(key, default): the last pair of a key wins
RECURSIVE DictGet(_, _, _)
DictGet(pairs, key, default) ==
    IF pairs = <<>> THEN default
    ELSE LET n == Len(pairs) IN
         IF pairs[n][1] = key THEN pairs[n][2]
         ELSE DictGet(SubSeq(pairs, 1, n - 1), key, default)

(***************************************************************************)
(* get_ranking_points (tournament.py 212-239).                             *)
(***************************************************************************)
\* sorted(..., key=itemgetter(1), reverse=True) is stable: a pair is placed
\* after every pair already there whose points are greater or equal.
RECURSIVE InsertByPointsDesc(_, _)
InsertByPointsDesc(sorted, pair) ==
    IF sorted = <<>> THEN <<pair>>
    ELSE IF Head(sorted)[2] >= pair[2]
         THEN <<Head(sorted)>> \o InsertByPointsDesc(Tail(sorted), pair)
         ELSE <<pair>> \o sorted

RECURSIVE SortedByPointsDesc(_)
SortedByPointsDesc(pairs) ==
    IF pairs = <<>> THEN <<>>
    ELSE LET n == Len(pairs) IN
         InsertByPointsDesc(SortedByPointsDesc(SubSeq(pairs, 1, n - 1)), pairs[n])

\* the loop of lines 231-238, from index i of wrk on
RECURSIVE RankingWalk(_, _, _, _, _)
RankingWalk(wrk, i, rank_points, ex_aequo, last_score_points) ==
    IF i > Len(wrk) THEN <<>>
    ELSE LET team_number == wrk[i][1]
             score_points == wrk[i][2]
             ex == IF Some(score_points) = last_score_points
                   THEN ex_aequo + 1 ELSE 0
         IN  <<<<team_number, rank_points + ex>>>>
             \o RankingWalk(wrk, i + 1, rank_points - 1, ex, Some(score_points))

\* Faulty variants of the function, used to show that the properties below
\* depend on the code: "keep" never resets ex_aequo, "short" starts the
\* countdown one too low, "blind" never detects a tie.
RECURSIVE FaultyWalk(_, _, _, _, _, _)
FaultyWalk(fault, wrk, i, rank_points, ex_aequo, last_score_points) ==
    IF i > Len(wrk) THEN <<>>
    ELSE LET team_number == wrk[i][1]
             score_points == wrk[i][2]
             ex == IF fault = "blind" THEN 0
                   ELSE IF Some(score_points) = last_score_points
                        THEN ex_aequo + 1
                        ELSE IF fault = "keep" THEN ex_aequo ELSE 0
         IN  <<<<team_number, rank_points + ex>>>>
             \o FaultyWalk(fault, wrk, i + 1, rank_points - 1, ex,
                           Some(score_points))

Reversed(s) == [i \in 1 .. Len(s) |-> s[Len(s) + 1 - i]]

get_ranking_points_keep_ex_aequo(score_points, n_teams) ==
    FaultyWalk("keep", SortedByPointsDesc(score_points), 1, n_teams, 0, None)

get_ranking_points_short(score_points, n_teams) ==
    FaultyWalk("short", SortedByPointsDesc(score_points), 1, n_teams - 1, 0, None)

get_ranking_points_blind(score_points, n_teams) ==
    FaultyWalk("blind", SortedByPointsDesc(score_points), 1, n_teams, 0, None)

get_ranking_points_ascending(score_points, n_teams) ==
    FaultyWalk("none", Reversed(SortedByPointsDesc(score_points)), 1, n_teams,
               0, None)

\* A faulty variant that walks the pairs in the order given.
get_ranking_points_unsorted(score_points, n_teams) ==
    RankingWalk(score_points, 1, n_teams, 0, None)

get_ranking_points(score_points, n_teams) ==
    RankingWalk(SortedByPointsDesc(score_points), 1, n_teams, 0, None)

(***************************************************************************)
(* Score variants (tournament.py 13-123).  A score is a record: its type   *)
(* and the items of that type.  The concrete robotics variants             *)
(* (Round1Score, Round2Score) are subclasses of RoboticsScore that live    *)
(* outside this file; their action items are summed up in one field,       *)
(* credit, the value evaluate_action_credits() returns.                    *)
(***************************************************************************)
MATCH_DURATION == 150

\* None passed where a score is expected
NoScore == [type |-> "NoneType"]

\* the class hierarchy: direct base class of each score type
BaseClass(type) ==
    CASE type = "Round1Score" -> "RoboticsScore"
      [] type = "Round2Score" -> "RoboticsScore"
      [] type = "RoboticsScore" -> "Score"
      [] type = "ResearchEvaluationScore" -> "Score"
      [] type = "JuryEvaluationScore" -> "Score"
      [] OTHER -> "object"

\* isinstance(score, score_type): the type itself or one of its subclasses
RECURSIVE IsSubclass(_, _)
IsSubclass(type, score_type) ==
    \/ type = score_type
    \/ type \notin {"object", "NoneType"}
        /\ IsSubclass(BaseClass(type), score_type)

isinstance(score, score_type) == IsSubclass(score.type, score_type)

\* RoboticsScore.max_action_credits() of the concrete variants
max_action_credits == 8

\* RoboticsScore.evaluate_action_credits() of the concrete variants
evaluate_action_credits(score) == score.credit

\* A faulty RoboticsScore.evaluate that does not compare the time with
\* MATCH_DURATION.
RoboticsScore_evaluate_any_time(score) ==
    LET credit == evaluate_action_credits(score)
        advance == IF credit = max_action_credits
                   THEN MATCH_DURATION - score.total_time
                   ELSE 0
    IN  credit + advance

\* RoboticsScore.evaluate
RoboticsScore_evaluate(score) ==
    LET credit == evaluate_action_credits(score)
        advance == IF credit = max_action_credits
                      /\ score.total_time < MATCH_DURATION
                   THEN MATCH_DURATION - score.total_time
                   ELSE 0
    IN  credit + advance

\* A faulty ResearchEvaluationScore.evaluate that does not look at shown.
ResearchEvaluationScore_evaluate_unshown(score) ==
    score.topic + score.research + score.presentation + score.poster

\* ResearchEvaluationScore.evaluate
ResearchEvaluationScore_evaluate(score) ==
    IF score.shown
    THEN score.topic + score.research + score.presentation + score.poster
    ELSE 0

\* JuryEvaluationScore.evaluate
JuryEvaluationScore_evaluate(score) == score.evaluation

\* score.evaluate(), dispatched on the type of the score
evaluate(score) ==
    CASE IsSubclass(score.type, "RoboticsScore") -> RoboticsScore_evaluate(score)
      [] score.type = "ResearchEvaluationScore" ->
             ResearchEvaluationScore_evaluate(score)
      [] score.type = "JuryEvaluationScore" -> JuryEvaluationScore_evaluate(score)

(***************************************************************************)
(* Round (tournament.py 130-209).  A Round is a record: its score_type     *)
(* and the dictionary _scores, a function from the team numbers that have  *)
(* an entry to their score.                                                *)
(***************************************************************************)
EmptyDict == <<>>

\* Round.__init__
Round(score_type) == [score_type |-> score_type, scores |-> EmptyDict]

DictSet(dict, key, value) ==
    [k \in DOMAIN dict \cup {key} |-> IF k = key THEN value ELSE dict[k]]

DictDel(dict, key) == [k \in DOMAIN dict \ {key} |-> dict[k]]

\* A faulty add_team_score that refuses to replace an entry.
add_team_score_no_overwrite(rnd, team_number, score) ==
    IF score # NoScore
    THEN IF ~isinstance(score, rnd.score_type) \/ team_number \in DOMAIN rnd.scores
         THEN [round |-> rnd, exc |-> "ValueError"]
         ELSE [round |-> [rnd EXCEPT !.scores = DictSet(@, team_number, score)],
               exc |-> "none"]
    ELSE [round |-> rnd, exc |-> "ValueError"]

\* Round.add_team_score: the Round after the call and the exception raised.
\* team_number is always an int here, so the assertion of line 145 holds.
add_team_score(rnd, team_number, score) ==
    IF score # NoScore
    THEN IF ~isinstance(score, rnd.score_type)
         THEN [round |-> rnd, exc |-> "ValueError"]
         ELSE [round |-> [rnd EXCEPT !.scores = DictSet(@, team_number, score)],
               exc |-> "none"]
    ELSE [round |-> rnd, exc |-> "ValueError"]

\* A faulty clear_team_score that empties the Round.
clear_team_score_all(rnd, team_number) == [rnd EXCEPT !.scores = EmptyDict]

\* A faulty clear_team_score that leaves the entry in place.
clear_team_score_keeps(rnd, team_number) == rnd

\* Round.clear_team_score: the KeyError of an absent entry is swallowed
clear_team_score(rnd, team_number) ==
    IF team_number \in DOMAIN rnd.scores
    THEN [rnd EXCEPT !.scores = DictDel(@, team_number)]
    ELSE rnd

\* A faulty get_team_score that answers None for a team without entry.
get_team_score_or_none(rnd, team_number) ==
    IF team_number \in DOMAIN rnd.scores
    THEN [score |-> rnd.scores[team_number], exc |-> "none"]
    ELSE [score |-> NoScore, exc |-> "none"]

\* Round.get_team_score: the score returned and the exception raised;
\* self._scores[team_number] raises KeyError for a missing key
get_team_score(rnd, team_number) ==
    IF team_number \in DOMAIN rnd.scores
    THEN [score |-> rnd.scores[team_number], exc |-> "none"]
    ELSE [score |-> NoScore, exc |-> "KeyError"]

\* the keys of a dictionary in the order its iteration yields them; the
\* model iterates in ascending key order
RECURSIVE KeysInOrder(_)
KeysInOrder(keys) ==
    IF keys = {} THEN <<>>
    ELSE LET least == CHOOSE k \in keys : \A other \in keys : k <= other
         IN  <<least>> \o KeysInOrder(keys \ {least})

\* [(team_number, score.evaluate()) for team_number, score in _scores.iteritems()]
ScorePoints(rnd) ==
    LET keys == KeysInOrder(DOMAIN rnd.scores)
    IN  [i \in 1 .. Len(keys) |-> <<keys[i], evaluate(rnd.scores[keys[i]])>>]

\* Round.get_ranking_points
Round_get_ranking_points(rnd, n_teams) ==
    get_ranking_points(ScorePoints(rnd), n_teams)

RoundScorePoints(score, rank) == [score |-> score, rank |-> rank]

\* A faulty get_results that numbers the teams from 0.
get_results_from_zero(rnd, n_teams) ==
    LET score_points == ScorePoints(rnd)
        ranking_points == get_ranking_points(score_points, n_teams)
    IN  [team_number \in 0 .. n_teams - 1 |->
            RoundScorePoints(DictGet(score_points, team_number, 0),
                             DictGet(ranking_points, team_number, 0))]

\* Round.get_results
get_results(rnd, n_teams) ==
    LET score_points == ScorePoints(rnd)
        ranking_points == get_ranking_points(score_points, n_teams)
    IN  [team_number \in 1 .. n_teams |->
            RoundScorePoints(DictGet(score_points, team_number, 0),
                             DictGet(ranking_points, team_number, 0))]

\* Round.get_completed_teams
get_completed_teams(rnd) == KeysInOrder(DOMAIN rnd.scores)

(***************************************************************************)
(* ScholarLevel and Team (tournament.py 242-287).                          *)
(***************************************************************************)
POST_BAC == 0
TERMINALE == 1
PREMIERE == 2
SECONDE == 3
TROISIEME == 4
QUATRIEME == 5
CINQUIEME == 6
SIXIEME == 7
CM2 == 8
CM1 == 9

\* the levels in the order of their declaration, from POST_BAC to CM1
ScholarLevels ==
    <<POST_BAC, TERMINALE, PREMIERE, SECONDE, TROISIEME, QUATRIEME, CINQUIEME,
      SIXIEME, CM2, CM1>>

\* A faulty bonus counted from TERMINALE.
bonus_points_from_terminale(level) == level - TERMINALE

\* ScholarLevel.bonus_points
bonus_points(level) == level - POST_BAC

\* ScholarLevel.is_valid
is_valid(level) == POST_BAC <= level /\ level <= CM1

\* the namedtuple Team: equality is equality of name and level
Team(name, level) == [name |-> name, level |-> level]

(***************************************************************************)
(* Tournament queries (tournament.py 368-575), as functions of the state.  *)
(***************************************************************************)
\* what a query that raised returns in the place of a team
NoTeam == [name |-> "", level |-> POST_BAC]

\* Tournament.get_team: the team returned and the exception raised
get_team(team_num) ==
    IF 0 < team_num /\ team_num <= team_count
    THEN [team |-> teams[team_num], exc |-> "none"]
    ELSE [team |-> NoTeam, exc |-> "KeyError"]

\* Tournament.get_robotics_round
get_robotics_round(num) == robotics_rounds[num]

\* Tournament.get_research_evaluation
get_research_evaluation(team_num) == get_team_score(research_evaluations, team_num)

\* Tournament.get_jury_evaluation
get_jury_evaluation(team_num) == get_team_score(jury_evaluations, team_num)

\* the score types the Tournament is constructed with
robotics_score_types == <<"Round1Score", "Round2Score">>

\* lines 467-471: the pairs of one Round's ranking points added to the totals
RECURSIVE AddPoints(_, _, _)
AddPoints(total_points, res, i) ==
    IF i > Len(res) THEN total_points
    ELSE LET team == res[i][1]
             points == res[i][2]
         IN  AddPoints(IF team \in DOMAIN total_points
                       THEN DictSet(total_points, team, total_points[team] + points)
                       ELSE DictSet(total_points, team, points),
                       res, i + 1)

\* A faulty accumulation that keeps only the last Round's points of a team.
RECURSIVE AddPoints_overwrite(_, _, _)
AddPoints_overwrite(total_points, res, i) ==
    IF i > Len(res) THEN total_points
    ELSE AddPoints_overwrite(DictSet(total_points, res[i][1], res[i][2]),
                             res, i + 1)

\* lines 464-471: total_points after the Rounds from index i on
RECURSIVE TotalPoints(_, _, _)
TotalPoints(rounds, i, total_points) ==
    IF i > Len(rounds) THEN total_points
    ELSE TotalPoints(rounds, i + 1,
             AddPoints(total_points,
                       Round_get_ranking_points(rounds[i], team_count), 1))

RECURSIVE TotalPoints_overwrite(_, _, _)
TotalPoints_overwrite(rounds, i, total_points) ==
    IF i > Len(rounds) THEN total_points
    ELSE TotalPoints_overwrite(rounds, i + 1,
             AddPoints_overwrite(total_points,
                       Round_get_ranking_points(rounds[i], team_count), 1))

\* dict.items(): the pairs of a dictionary in iteration order
DictItems(dict) ==
    LET keys == KeysInOrder(DOMAIN dict)
    IN  [i \in 1 .. Len(keys) |-> <<keys[i], dict[keys[i]]>>]

\* lines 473-477: the consolidated results from the totals
RoboticsResultsOf(total_points) ==
    LET ranking_points == get_ranking_points(DictItems(total_points), team_count)
    IN  [team_num \in Range(team_numbers) |->
            RoundScorePoints(
                IF team_num \in DOMAIN total_points THEN total_points[team_num] ELSE 0,
                DictGet(ranking_points, team_num, 0))]

get_robotics_results_overwrite ==
    RoboticsResultsOf(TotalPoints_overwrite(robotics_rounds, 1, EmptyDict))

\* Tournament.get_robotics_results
get_robotics_results ==
    RoboticsResultsOf(TotalPoints(robotics_rounds, 1, EmptyDict))

\* Tournament.get_research_evaluation_results
get_research_evaluation_results == get_results(research_evaluations, team_count)

\* Tournament.get_team_evaluation_results
get_team_evaluation_results == get_results(jury_evaluations, team_count)

\* Tournament.get_teams_bonus
get_teams_bonus == [i \in 1 .. Len(teams) |-> bonus_points(teams[i].level)]

\* results.get(team_num, not_avail).rank
RankIn(results, team_num) ==
    IF team_num \in DOMAIN results THEN results[team_num].rank ELSE 0

\* lines 550-558: the combined totals handed to get_ranking_points
CombinedTotals ==
    LET robotics == get_robotics_results
        research == get_research_evaluation_results
        jury == get_team_evaluation_results
    IN  [team_num \in 1 .. Len(teams) |->
            <<team_num,
              RankIn(robotics, team_num) + RankIn(research, team_num)
              + RankIn(jury, team_num) + bonus_points(teams[team_num].level)>>]

\* The same totals with the scholar bonus forgotten.
CombinedTotals_no_bonus ==
    LET robotics == get_robotics_results
        research == get_research_evaluation_results
        jury == get_team_evaluation_results
    IN  [team_num \in 1 .. Len(teams) |->
            <<team_num,
              RankIn(robotics, team_num) + RankIn(research, team_num)
              + RankIn(jury, team_num)>>]

\* lines 561-575: the ranking list rearranged into (rank, [team numbers])
RECURSIVE Rearrange(_, _, _, _, _)
Rearrange(global_ranking, i, rank, last_pts, result) ==
    IF i > Len(global_ranking) THEN result
    ELSE LET team_num == global_ranking[i][1]
             pts == global_ranking[i][2]
             n == Len(result)
         IN  Rearrange(global_ranking, i + 1, rank + 1, Some(pts),
                 IF Some(pts) = last_pts
                 THEN [result EXCEPT ![n] = <<@[1], Append(@[2], team_num)>>]
                 ELSE Append(result, <<rank, <<team_num>>>>))

\* A faulty rearrangement that numbers the entries 1, 2, 3, ...
RECURSIVE Rearrange_dense(_, _, _, _, _)
Rearrange_dense(global_ranking, i, rank, last_pts, result) ==
    IF i > Len(global_ranking) THEN result
    ELSE LET team_num == global_ranking[i][1]
             pts == global_ranking[i][2]
             n == Len(result)
         IN  IF Some(pts) = last_pts
             THEN Rearrange_dense(global_ranking, i + 1, rank, Some(pts),
                     [result EXCEPT ![n] = <<@[1], Append(@[2], team_num)>>])
             ELSE Rearrange_dense(global_ranking, i + 1, rank + 1, Some(pts),
                     Append(result, <<rank, <<team_num>>>>))

\* A faulty rearrangement that lists only the first team of a tie.
RECURSIVE Rearrange_drop_ties(_, _, _, _, _)
Rearrange_drop_ties(global_ranking, i, rank, last_pts, result) ==
    IF i > Len(global_ranking) THEN result
    ELSE LET team_num == global_ranking[i][1]
             pts == global_ranking[i][2]
         IN  Rearrange_drop_ties(global_ranking, i + 1, rank + 1, Some(pts),
                 IF Some(pts) = last_pts
                 THEN result
                 ELSE Append(result, <<rank, <<team_num>>>>))

get_final_ranking_drop_ties ==
    Rearrange_drop_ties(SortedByPointsDesc(get_ranking_points(CombinedTotals,
                                                              team_count)),
                        1, 1, None, <<>>)

get_final_ranking_no_bonus ==
    Rearrange(SortedByPointsDesc(get_ranking_points(CombinedTotals_no_bonus,
                                                    team_count)),
              1, 1, None, <<>>)

get_final_ranking_dense ==
    Rearrange_dense(SortedByPointsDesc(get_ranking_points(CombinedTotals,
                                                          team_count)),
                    1, 1, None, <<>>)

\* Tournament.get_final_ranking
get_final_ranking ==
    LET global_ranking == get_ranking_points(CombinedTotals, team_count)
    IN  Rearrange(SortedByPointsDesc(global_ranking), 1, 1, None, <<>>)

\* A faulty completion tuple that is true for every team as soon as the
\* Round has an entry.
CompletionOf_any_entry(rnd) ==
    [k \in 1 .. Len(team_numbers) |-> DOMAIN rnd.scores # {}]

\* Tournament.get_completion_status: one tuple of booleans per robotics
\* Round, one for the research evaluations and one for the jury evaluations,
\* each with one boolean per team number of team_nums
CompletionOf(rnd) ==
    LET completed == get_completed_teams(rnd)
    IN  [k \in 1 .. Len(team_numbers) |-> team_numbers[k] \in Range(completed)]

get_completion_status ==
    [robotics |-> [i \in 1 .. Len(robotics_rounds) |->
                      CompletionOf(robotics_rounds[i])],
     research |-> CompletionOf(research_evaluations),
     jury_eval |-> CompletionOf(jury_evaluations)]

\* the namedtuple CompiledScore
CompiledScore(rob1, rob2, rob3, research, jury) ==
    [rob1 |-> rob1, rob2 |-> rob2, rob3 |-> rob3, research |-> research,
     jury |-> jury]

\* lines 513-522: the dictionary wrk, from the team numbers with an entry in
\* some Round to their dictionary of evaluated scores; the key of robotics
\* Round i ('rob%d' % i) is <<"rob", i>>
CompiledWrk ==
    LET with_entry ==
            UNION {DOMAIN robotics_rounds[i].scores : i \in DOMAIN robotics_rounds}
            \cup DOMAIN research_evaluations.scores
            \cup DOMAIN jury_evaluations.scores
        keys(team_num) ==
            {<<"rob", i>> : i \in {j \in DOMAIN robotics_rounds :
                                      team_num \in DOMAIN robotics_rounds[j].scores}}
            \cup (IF team_num \in DOMAIN research_evaluations.scores
                  THEN {<<"research">>} ELSE {})
            \cup (IF team_num \in DOMAIN jury_evaluations.scores
                  THEN {<<"jury">>} ELSE {})
    IN  [team_num \in with_entry |->
            [key \in keys(team_num) |->
                CASE key = <<"research">> ->
                         evaluate(research_evaluations.scores[team_num])
                  [] key = <<"jury">> ->
                         evaluate(jury_evaluations.scores[team_num])
                  [] OTHER -> evaluate(robotics_rounds[key[2]].scores[team_num])]]

\* scores.get(key, None)
ScoresGet(scores, key) ==
    IF key \in DOMAIN scores THEN Some(scores[key]) ELSE None

\* Tournament.get_compiled_scores
get_compiled_scores ==
    LET wrk == CompiledWrk
    IN  [team_num \in Range(team_numbers) |->
            IF team_num \in DOMAIN wrk
            THEN CompiledScore(ScoresGet(wrk[team_num], <<"rob", 1>>),
                               ScoresGet(wrk[team_num], <<"rob", 2>>),
                               ScoresGet(wrk[team_num], <<"rob", 3>>),
                               ScoresGet(wrk[team_num], <<"research">>),
                               ScoresGet(wrk[team_num], <<"jury">>))
            ELSE CompiledScore(None, None, None, None, None)]

(***************************************************************************)
(* Persistence (tournament.py 53-54, 208-209, 341-348, 577-609).  A        *)
(* Tournament object is a record of its fields; as_dict reads the state,   *)
(* from_dict fills a Tournament object from a dictionary.                  *)
(***************************************************************************)
\* Tournament.__init__ as an object
Tournament(score_types) ==
    [robotics_score_types |-> score_types,
     teams |-> <<>>,
     team_count |-> 0,
     team_numbers |-> <<>>,
     robotics_rounds |-> [i \in 1 .. Len(score_types) |-> Round(score_types[i])],
     research_evaluations |-> Round("ResearchEvaluationScore"),
     jury_evaluations |-> Round("JuryEvaluationScore"),
     planning |-> << <<14, 30>>, <<15, 45>>, <<19, 30>>, <<20, 30>> >>]

\* str(t) of a datetime.time(hour, minute): the fields of "HH:MM:SS", the
\* seconds being 0
time_str(t) == <<t[1], t[2], 0>>

\* datetime.datetime.strptime(s, "%H:%M:%S").time(); a time whose seconds are
\* 0 is the time (hour, minute)
strptime_time(s) == IF s[3] = 0 THEN <<s[1], s[2]>> ELSE <<s[1], s[2], s[3]>>

\* Score.as_dict: the items of the score, without its class
Score_as_dict(score) ==
    CASE IsSubclass(score.type, "RoboticsScore") ->
             [total_time |-> score.total_time, credit |-> score.credit]
      [] score.type = "ResearchEvaluationScore" ->
             [shown |-> score.shown, topic |-> score.topic,
              research |-> score.research, presentation |-> score.presentation,
              poster |-> score.poster]
      [] score.type = "JuryEvaluationScore" -> [evaluation |-> score.evaluation]

\* A faulty score_type(**score_dict) that leaves total_time at its default.
Score_from_dict_no_time(score_type, score_dict) ==
    CASE IsSubclass(score_type, "RoboticsScore") ->
             [type |-> score_type, total_time |-> 0, credit |-> score_dict.credit]
      [] score_type = "ResearchEvaluationScore" ->
             [type |-> score_type, shown |-> score_dict.shown,
              topic |-> score_dict.topic, research |-> score_dict.research,
              presentation |-> score_dict.presentation,
              poster |-> score_dict.poster]
      [] score_type = "JuryEvaluationScore" ->
             [type |-> score_type, evaluation |-> score_dict.evaluation]

\* score_type(**score_dict)
Score_from_dict(score_type, score_dict) ==
    CASE IsSubclass(score_type, "RoboticsScore") ->
             [type |-> score_type, total_time |-> score_dict.total_time,
              credit |-> score_dict.credit]
      [] score_type = "ResearchEvaluationScore" ->
             [type |-> score_type, shown |-> score_dict.shown,
              topic |-> score_dict.topic, research |-> score_dict.research,
              presentation |-> score_dict.presentation,
              poster |-> score_dict.poster]
      [] score_type = "JuryEvaluationScore" ->
             [type |-> score_type, evaluation |-> score_dict.evaluation]

\* Round.as_dict
Round_as_dict(rnd) ==
    [team_num \in DOMAIN rnd.scores |-> Score_as_dict(rnd.scores[team_num])]

\* Tournament.as_dict
as_dict ==
    [teams |-> teams,
     planning |-> [i \in 1 .. Len(planning) |-> time_str(planning[i])],
     robotics_rounds |-> [i \in 1 .. Len(robotics_rounds) |->
                             Round_as_dict(robotics_rounds[i])],
     research_evaluations |-> Round_as_dict(research_evaluations),
     jury_evaluations |-> Round_as_dict(jury_evaluations)]

\* A faulty load_teams that forgets to refresh the count and the numbers.
load_teams_stale_count(self, data) ==
    IF Len(data) = 0 THEN self
    ELSE [self EXCEPT
            !.teams = [i \in 1 .. Len(data) |-> Team(data[i].name, data[i].level)]]

\* Tournament.load_teams: the three assignments are in the body of the loop,
\* so that an empty list leaves the roster as it is
load_teams(self, data) ==
    IF Len(data) = 0 THEN self
    ELSE [self EXCEPT
            !.teams = [i \in 1 .. Len(data) |-> Team(data[i].name, data[i].level)],
            !.team_count = Len(data),
            !.team_numbers = [i \in 1 .. Len(data) |-> i]]

\* for team_num, score_dict in scores.iteritems():
\*     round_.add_team_score(int(team_num), score_type(**score_dict))
RECURSIVE AddScores(_, _, _, _)
AddScores(rnd, score_type, scores, keys) ==
    IF Len(keys) = 0 THEN rnd
    ELSE LET team_num == Head(keys)
             score == Score_from_dict(score_type, scores[team_num])
         IN  AddScores(add_team_score(rnd, team_num, score).round, score_type,
                       scores, Tail(keys))

\* Tournament.from_dict: the object self after the call
from_dict(self, d) ==
    LET loaded == load_teams(self, d.teams)
        rounds_dict == d.robotics_rounds
    IN  [loaded EXCEPT
            !.planning = [i \in 1 .. Len(d.planning) |-> strptime_time(d.planning[i])],
            !.robotics_rounds =
                [i \in 1 .. Len(self.robotics_score_types) |->
                    AddScores(Round(self.robotics_score_types[i]),
                              self.robotics_score_types[i], rounds_dict[i],
                              KeysInOrder(DOMAIN rounds_dict[i]))],
            !.research_evaluations =
                AddScores(self.research_evaluations, "ResearchEvaluationScore",
                          d.research_evaluations,
                          KeysInOrder(DOMAIN d.research_evaluations)),
            !.jury_evaluations =
                AddScores(self.jury_evaluations, "JuryEvaluationScore",
                          d.jury_evaluations,
                          KeysInOrder(DOMAIN d.jury_evaluations))]

(***************************************************************************)
(* SpecRank: get_ranking_points called once on an arbitrary input.         *)
(***************************************************************************)
RankTeams == 1 .. MaxRankTeams

\* lists of (team, points) pairs with at most one pair per team
RankInputs ==
    UNION {
        {s \in [1 .. n -> RankTeams \X RawPoints] :
            \A i, j \in 1 .. n : i # j => s[i][1] # s[j][1]}
        : n \in 0 .. MaxRankTeams }

\* team_count offered to get_ranking_points: no team, fewer teams than the
\* longest list, as many
RankCounts == {0, MaxRankTeams - 1, MaxRankTeams}

IdleRound == [score_type |-> "Score", scores |-> <<>>]
\* ret records the last call made: the operation, its numeric argument (a
\* team number or a team count), its score argument and the exception raised
Ret(op, num, arg, exc) == [op |-> op, num |-> num, arg |-> arg, exc |-> exc]
IdleRet == Ret("none", 0, NoScore, "none")

RankIdle ==
    /\ rk_input = <<>>
    /\ rk_count = 0
    /\ rk_result = <<>>
    /\ rk_done = FALSE

RoundIdle ==
    /\ round_ = IdleRound
    /\ ret = IdleRet

TournamentIdle ==
    /\ teams = <<>>
    /\ team_count = 0
    /\ team_numbers = <<>>
    /\ robotics_rounds = <<>>
    /\ research_evaluations = IdleRound
    /\ jury_evaluations = IdleRound
    /\ planning = <<>>

InitRank ==
    /\ rk_input \in RankInputs
    /\ rk_count \in RankCounts
    /\ rk_result = <<>>
    /\ rk_done = FALSE
    /\ RoundIdle
    /\ TournamentIdle

CallGetRankingPoints ==
    /\ ~rk_done
    /\ rk_result' = get_ranking_points(rk_input, rk_count)
    /\ rk_done' = TRUE
    /\ UNCHANGED <<rk_input, rk_count>>
    /\ UNCHANGED round_vars
    /\ UNCHANGED tournament_vars

NextRank == CallGetRankingPoints

SpecRank == InitRank /\ [][NextRank]_vars

(***************************************************************************)
(* SpecOrder: get_ranking_points called once on a short list, every        *)
(* rearrangement of which is small enough to be tried.                     *)
(***************************************************************************)
\* the longest list of pairs offered
MaxOrderTeams == 3

\* lists of (team, points) pairs with at most one pair per team
OrderInputs ==
    UNION {
        {s \in [1 .. n -> (1 .. MaxOrderTeams) \X RawPoints] :
            \A i, j \in 1 .. n : i # j => s[i][1] # s[j][1]}
        : n \in 0 .. MaxOrderTeams }

\* team_count offered: one team fewer than the longest list, as many
OrderCounts == {MaxOrderTeams - 1, MaxOrderTeams}

InitOrder ==
    /\ rk_input \in OrderInputs
    /\ rk_count \in OrderCounts
    /\ rk_result = <<>>
    /\ rk_done = FALSE
    /\ RoundIdle
    /\ TournamentIdle

SpecOrder == InitOrder /\ [][NextRank]_vars

(***************************************************************************)
(* SpecScore: evaluate() called once on an arbitrary score.  ret.arg is    *)
(* the score and, once the call is made, ret.num the value returned.       *)
(***************************************************************************)
\* stopwatch values around MATCH_DURATION
ScoreTimes == {0, 90, MATCH_DURATION - 1, MATCH_DURATION, MATCH_DURATION + 1, 200}

\* action credits up to max_action_credits; penalties can make them negative
ScoreCredits == {-2, 0, 5, max_action_credits - 1, max_action_credits}

RoboticsScoreInputs ==
    {[type |-> t, total_time |-> tt, credit |-> c] :
        t \in {"Round1Score", "Round2Score"}, tt \in ScoreTimes, c \in ScoreCredits}

ResearchScoreInputs ==
    {[type |-> "ResearchEvaluationScore", shown |-> sh, topic |-> tp,
      research |-> rs, presentation |-> pr, poster |-> po] :
        sh \in BOOLEAN, tp \in {0, 5}, rs \in {0, 10}, pr \in {0, 8}, po \in {0, 7}}

JuryScoreInputs ==
    {[type |-> "JuryEvaluationScore", evaluation |-> e] : e \in {0, 7, 12, 20}}

InitScore ==
    /\ ret \in {Ret("none", 0, score, "none") :
                  score \in RoboticsScoreInputs \cup ResearchScoreInputs
                                \cup JuryScoreInputs}
    /\ round_ = IdleRound
    /\ RankIdle
    /\ TournamentIdle

\* score.evaluate()
Evaluate ==
    /\ ret.op = "none"
    /\ ret' = Ret("evaluate", evaluate(ret.arg), ret.arg, "none")
    /\ UNCHANGED round_
    /\ UNCHANGED rank_vars
    /\ UNCHANGED tournament_vars

NextScore == Evaluate

SpecScore == InitScore /\ [][NextScore]_vars

(***************************************************************************)
(* SpecRound: one Round, of either score type, driven by add_team_score,   *)
(* clear_team_score and get_results.                                       *)
(***************************************************************************)
RoundTeamNumbers == -1 .. MaxRoundTeam
RoundTeamCounts == 0 .. MaxRoundTeam + 1

JuryScores ==
    {[type |-> "JuryEvaluationScore", evaluation |-> e] : e \in {0, 7, 12}}

Round1Scores ==
    {[type |-> "Round1Score", total_time |-> tt, credit |-> c] :
        <<tt, c>> \in {<<90, 8>>, <<150, 8>>, <<90, 5>>}}

\* the score arguments offered to a Round: both variants and None
ScoreArgs == JuryScores \cup Round1Scores \cup {NoScore}

\* the score types a Round is constructed with: two variants and the base
\* class of the robotics variants
RoundScoreTypes == {"JuryEvaluationScore", "Round1Score", "RoboticsScore"}

InitRound ==
    /\ round_ \in {Round(score_type) : score_type \in RoundScoreTypes}
    /\ ret = IdleRet
    /\ RankIdle
    /\ TournamentIdle

AddTeamScore(team_number, score) ==
    LET call == add_team_score(round_, team_number, score) IN
    /\ round_' = call.round
    /\ ret' = Ret("add_team_score", team_number, score, call.exc)
    /\ UNCHANGED rank_vars
    /\ UNCHANGED tournament_vars

ClearTeamScore(team_number) ==
    /\ round_' = clear_team_score(round_, team_number)
    /\ ret' = Ret("clear_team_score", team_number, NoScore, "none")
    /\ UNCHANGED rank_vars
    /\ UNCHANGED tournament_vars

GetResults(n_teams) ==
    /\ ret' = Ret("get_results", n_teams, NoScore, "none")
    /\ UNCHANGED round_
    /\ UNCHANGED rank_vars
    /\ UNCHANGED tournament_vars

NextRound ==
    \/ \E team_number \in RoundTeamNumbers, score \in ScoreArgs :
           AddTeamScore(team_number, score)
    \/ \E team_number \in RoundTeamNumbers : ClearTeamScore(team_number)
    \/ \E n_teams \in RoundTeamCounts : GetResults(n_teams)

SpecRound == InitRound /\ [][NextRound]_vars

(***************************************************************************)
(* Spec: a Tournament (tournament.py 295-431) driven by add_team, the      *)
(* set/clear operations of its Rounds and get_final_ranking.  Here ret     *)
(* names the method that ran last (add_team, the Round method a set/clear  *)
(* operation delegates to, or get_final_ranking) and the exception raised. *)
(***************************************************************************)
\* the teams offered to add_team
TeamInputs == {Team("A", TERMINALE), Team("B", TERMINALE), Team("A", POST_BAC)}

\* the team numbers offered to the score operations
ScoreTeamNums == {1, 2}

\* the round numbers offered to set/clear_robotics_score
RoundNums == 1 .. Len(robotics_score_types)

Round2Scores == {[type |-> "Round2Score", total_time |-> 120, credit |-> 8]}

ResearchScores ==
    {[type |-> "ResearchEvaluationScore", shown |-> TRUE, topic |-> 5,
      research |-> 10, presentation |-> 8, poster |-> 7]}

\* the scores offered to the robotics Rounds: valid ones of each Round, a
\* score of another variant and None
RoboticsScoreArgs ==
    {[type |-> "Round1Score", total_time |-> 90, credit |-> 8],
     [type |-> "Round1Score", total_time |-> 90, credit |-> 5]}
    \cup Round2Scores \cup {NoScore}

ResearchScoreArgs ==
    ResearchScores \cup {[type |-> "JuryEvaluationScore", evaluation |-> 12], NoScore}

JuryScoreArgs ==
    {[type |-> "JuryEvaluationScore", evaluation |-> 12]}
    \cup ResearchScores \cup {NoScore}

\* Tournament.__init__
Init ==
    /\ teams = <<>>
    /\ team_count = 0
    /\ team_numbers = <<>>
    /\ robotics_rounds = [i \in 1 .. Len(robotics_score_types) |->
                             Round(robotics_score_types[i])]
    /\ research_evaluations = Round("ResearchEvaluationScore")
    /\ jury_evaluations = Round("JuryEvaluationScore")
    /\ planning = << <<14, 30>>, <<15, 45>>, <<19, 30>>, <<20, 30>> >>
    /\ ret = IdleRet
    /\ round_ = IdleRound
    /\ RankIdle

\* A faulty add_team that takes two teams of the same name for duplicates.
AddTeam_by_name(team) ==
    /\ IF \E i \in 1 .. Len(teams) : teams[i].name = team.name
       THEN /\ ret' = Ret("add_team", 0, NoScore, "DuplicatedTeam")
            /\ UNCHANGED <<teams, team_count, team_numbers>>
       ELSE /\ teams' = Append(teams, team)
            /\ team_count' = team_count + 1
            /\ team_numbers' = [i \in 1 .. team_count' |-> i]
            /\ ret' = Ret("add_team", team_count', NoScore, "none")
    /\ UNCHANGED <<robotics_rounds, research_evaluations, jury_evaluations,
                   planning, round_>>
    /\ UNCHANGED rank_vars

\* A faulty add_team that puts the new team in front of the roster.
AddTeam_in_front(team) ==
    /\ IF team \in Range(teams)
       THEN /\ ret' = Ret("add_team", 0, NoScore, "DuplicatedTeam")
            /\ UNCHANGED <<teams, team_count, team_numbers>>
       ELSE /\ teams' = <<team>> \o teams
            /\ team_count' = team_count + 1
            /\ team_numbers' = [i \in 1 .. team_count' |-> i]
            /\ ret' = Ret("add_team", team_count', NoScore, "none")
    /\ UNCHANGED <<robotics_rounds, research_evaluations, jury_evaluations,
                   planning, round_>>
    /\ UNCHANGED rank_vars

\* A faulty add_team that does not refresh the cached team count and team
\* numbers.
AddTeam_stale_count(team) ==
    /\ IF team \in Range(teams)
       THEN /\ ret' = Ret("add_team", 0, NoScore, "DuplicatedTeam")
            /\ UNCHANGED <<teams, team_count, team_numbers>>
       ELSE /\ teams' = Append(teams, team)
            /\ ret' = Ret("add_team", Len(teams'), NoScore, "none")
            /\ UNCHANGED <<team_count, team_numbers>>
    /\ UNCHANGED <<robotics_rounds, research_evaluations, jury_evaluations,
                   planning, round_>>
    /\ UNCHANGED rank_vars

\* Tournament.add_team; ret.num is the team number returned, 0 when the
\* call raised
AddTeam(team) ==
    /\ IF team \in Range(teams)
       THEN /\ ret' = Ret("add_team", 0, NoScore, "DuplicatedTeam")
            /\ UNCHANGED <<teams, team_count, team_numbers>>
       ELSE /\ teams' = Append(teams, team)
            /\ team_count' = team_count + 1
            /\ team_numbers' = [i \in 1 .. team_count' |-> i]
            /\ ret' = Ret("add_team", team_count', NoScore, "none")
    /\ UNCHANGED <<robotics_rounds, research_evaluations, jury_evaluations,
                   planning, round_>>
    /\ UNCHANGED rank_vars

\* Tournament.set_robotics_score; the assertion of line 398 is the
\* precondition of the call
SetRoboticsScore(team_num, round_num, score) ==
    /\ round_num \in 1 .. Len(robotics_rounds)
    /\ LET call == add_team_score(robotics_rounds[round_num], team_num, score)
       IN  /\ robotics_rounds' =
                  [robotics_rounds EXCEPT ![round_num] = call.round]
           /\ ret' = Ret("add_team_score", 0, NoScore, call.exc)
    /\ UNCHANGED <<teams, team_count, team_numbers, research_evaluations,
                   jury_evaluations, planning, round_>>
    /\ UNCHANGED rank_vars

\* Tournament.clear_robotics_score; the assertion of line 402 is the
\* precondition of the call
ClearRoboticsScore(team_num, round_num) ==
    /\ round_num \in 1 .. Len(robotics_rounds)
    /\ robotics_rounds' =
           [robotics_rounds EXCEPT ![round_num] = clear_team_score(@, team_num)]
    /\ ret' = Ret("clear_team_score", 0, NoScore, "none")
    /\ UNCHANGED <<teams, team_count, team_numbers, research_evaluations,
                   jury_evaluations, planning, round_>>
    /\ UNCHANGED rank_vars

\* Tournament.set_research_evaluation
SetResearchEvaluation(team_num, score) ==
    LET call == add_team_score(research_evaluations, team_num, score) IN
    /\ research_evaluations' = call.round
    /\ ret' = Ret("add_team_score", 0, NoScore, call.exc)
    /\ UNCHANGED <<teams, team_count, team_numbers, robotics_rounds,
                   jury_evaluations, planning, round_>>
    /\ UNCHANGED rank_vars

\* Tournament.clear_research_evaluation
ClearResearchEvaluation(team_num) ==
    /\ research_evaluations' = clear_team_score(research_evaluations, team_num)
    /\ ret' = Ret("clear_team_score", 0, NoScore, "none")
    /\ UNCHANGED <<teams, team_count, team_numbers, robotics_rounds,
                   jury_evaluations, planning, round_>>
    /\ UNCHANGED rank_vars

\* Tournament.set_jury_evaluation
SetJuryEvaluation(team_num, score) ==
    LET call == add_team_score(jury_evaluations, team_num, score) IN
    /\ jury_evaluations' = call.round
    /\ ret' = Ret("add_team_score", 0, NoScore, call.exc)
    /\ UNCHANGED <<teams, team_count, team_numbers, robotics_rounds,
                   research_evaluations, planning, round_>>
    /\ UNCHANGED rank_vars

\* Tournament.clear_jury_evaluation
ClearJuryEvaluation(team_num) ==
    /\ jury_evaluations' = clear_team_score(jury_evaluations, team_num)
    /\ ret' = Ret("clear_team_score", 0, NoScore, "none")
    /\ UNCHANGED <<teams, team_count, team_numbers, robotics_rounds,
                   research_evaluations, planning, round_>>
    /\ UNCHANGED rank_vars

\* Tournament.get_final_ranking: a read, which leaves the Tournament as it is
GetFinalRanking ==
    /\ ret' = Ret("get_final_ranking", 0, NoScore, "none")
    /\ UNCHANGED tournament_vars
    /\ UNCHANGED round_
    /\ UNCHANGED rank_vars

\* the results of each robotics Round
RoundResults ==
    [i \in 1 .. Len(robotics_rounds) |-> get_results(robotics_rounds[i], team_count)]

\* what the result queries of the Tournament answer
Results ==
    [final |-> get_final_ranking,
     robotics |-> get_robotics_results,
     rounds |-> RoundResults,
     research |-> get_research_evaluation_results,
     jury |-> get_team_evaluation_results]

\* as_dict of the Tournament, then from_dict of the result on a Tournament
\* constructed with the same robotics score types, which from then on is
\* the Tournament; ret keeps what the result queries answered before
Reload ==
    \E loaded \in {from_dict(Tournament(robotics_score_types), as_dict)} :
    /\ teams' = loaded.teams
    /\ team_count' = loaded.team_count
    /\ team_numbers' = loaded.team_numbers
    /\ robotics_rounds' = loaded.robotics_rounds
    /\ research_evaluations' = loaded.research_evaluations
    /\ jury_evaluations' = loaded.jury_evaluations
    /\ planning' = loaded.planning
    /\ ret' = Ret("from_dict", 0, Results, "none")
    /\ UNCHANGED round_
    /\ UNCHANGED rank_vars

Next ==
    \/ \E team \in TeamInputs : AddTeam(team)
    \/ \E team_num \in ScoreTeamNums, round_num \in RoundNums,
          score \in RoboticsScoreArgs :
           SetRoboticsScore(team_num, round_num, score)
    \/ \E team_num \in ScoreTeamNums, round_num \in RoundNums :
           ClearRoboticsScore(team_num, round_num)
    \/ \E team_num \in ScoreTeamNums, score \in ResearchScoreArgs :
           SetResearchEvaluation(team_num, score)
    \/ \E team_num \in ScoreTeamNums : ClearResearchEvaluation(team_num)
    \/ \E team_num \in ScoreTeamNums, score \in JuryScoreArgs :
           SetJuryEvaluation(team_num, score)
    \/ \E team_num \in ScoreTeamNums : ClearJuryEvaluation(team_num)
    \/ GetFinalRanking

Spec == Init /\ [][Next]_vars

\* SpecReload: the Tournament of Spec, which can also be saved and loaded
NextReload ==
    \/ Next
    \/ Reload

SpecReload == Init /\ [][NextReload]_vars

(***************************************************************************)
(* SpecQuery: a Tournament whose entries are set, cleared and queried.     *)
(* Here ret holds, for a query, the team number asked for, what the query  *)
(* returned and the exception it raised.                                   *)
(***************************************************************************)
\* the teams offered to add_team
QueryTeamInputs == {Team("A", TERMINALE), Team("B", TERMINALE)}

\* the team numbers offered to the queries: 0, the numbers the score
\* operations use and one more
QueryTeamNums == {0} \cup ScoreTeamNums \cup {3}

\* the scores offered to the robotics Rounds: one of each Round
QueryRoboticsScoreArgs ==
    {[type |-> "Round1Score", total_time |-> 90, credit |-> 8]} \cup Round2Scores

\* the score offered to the jury evaluations
QueryJuryScores == {[type |-> "JuryEvaluationScore", evaluation |-> 12]}

\* Tournament.get_team
GetTeam(team_num) ==
    LET call == get_team(team_num) IN
    /\ ret' = Ret("get_team", team_num, call.team, call.exc)
    /\ UNCHANGED tournament_vars
    /\ UNCHANGED round_
    /\ UNCHANGED rank_vars

\* Tournament.get_robotics_round(round_num).get_team_score(team_num)
GetRoboticsScore(team_num, round_num) ==
    /\ round_num \in 1 .. Len(robotics_rounds)
    /\ LET call == get_team_score(get_robotics_round(round_num), team_num)
       IN  ret' = Ret("get_team_score", team_num, call.score, call.exc)
    /\ UNCHANGED tournament_vars
    /\ UNCHANGED round_
    /\ UNCHANGED rank_vars

\* Tournament.get_research_evaluation
GetResearchEvaluation(team_num) ==
    LET call == get_research_evaluation(team_num) IN
    /\ ret' = Ret("get_research_evaluation", team_num, call.score, call.exc)
    /\ UNCHANGED tournament_vars
    /\ UNCHANGED round_
    /\ UNCHANGED rank_vars

\* Tournament.get_jury_evaluation
GetJuryEvaluation(team_num) ==
    LET call == get_jury_evaluation(team_num) IN
    /\ ret' = Ret("get_jury_evaluation", team_num, call.score, call.exc)
    /\ UNCHANGED tournament_vars
    /\ UNCHANGED round_
    /\ UNCHANGED rank_vars

NextQuery ==
    \/ \E team \in QueryTeamInputs : AddTeam(team)
    \/ \E team_num \in ScoreTeamNums, round_num \in RoundNums,
          score \in QueryRoboticsScoreArgs :
           SetRoboticsScore(team_num, round_num, score)
    \/ \E team_num \in ScoreTeamNums, round_num \in RoundNums :
           ClearRoboticsScore(team_num, round_num)
    \/ \E team_num \in ScoreTeamNums, score \in ResearchScores :
           SetResearchEvaluation(team_num, score)
    \/ \E team_num \in ScoreTeamNums : ClearResearchEvaluation(team_num)
    \/ \E team_num \in ScoreTeamNums, score \in QueryJuryScores :
           SetJuryEvaluation(team_num, score)
    \/ \E team_num \in ScoreTeamNums : ClearJuryEvaluation(team_num)
    \/ \E team_num \in QueryTeamNums : GetTeam(team_num)
    \/ \E team_num \in QueryTeamNums, round_num \in RoundNums :
           GetRoboticsScore(team_num, round_num)
    \/ \E team_num \in QueryTeamNums : GetResearchEvaluation(team_num)
    \/ \E team_num \in QueryTeamNums : GetJuryEvaluation(team_num)

SpecQuery == Init /\ [][NextQuery]_vars

(***************************************************************************)
(* Properties of get_ranking_points, checked under SpecRank.               *)
(***************************************************************************)
\* raw points of a team of the input, ranking points of a team of the result
RawOf(team) == DictGet(rk_input, team, 0)
RankOf(team) == DictGet(rk_result, team, 0)
InputTeams == {rk_input[i][1] : i \in DOMAIN rk_input}
ResultTeams == {rk_result[i][1] : i \in DOMAIN rk_result}

\* raw points of the teams in the order of the walk (the order of the result)
WalkRaw == [k \in DOMAIN rk_result |-> RawOf(rk_result[k][1])]

\* C1: for every input list with at most one pair per team, each team's
\* ranking points are (N - index_in_walk) + ex_aequo_counter, which is N
\* minus the number of input teams with strictly higher points; every team
\* holding the highest raw points gets exactly N.
C1_RankingPointsFormula ==
    rk_done =>
        LET raw == WalkRaw
            \* the ex-aequo counter at position k: the number of teams just
            \* before k that share k's raw points
            ex_aequo(k) == Cardinality({j \in 1 .. k - 1 :
                               \A m \in j .. k : raw[m] = raw[k]})
            higher(k) == Cardinality({j \in DOMAIN raw : raw[j] > raw[k]})
        IN  /\ Len(rk_result) = Len(rk_input)
            /\ ResultTeams = InputTeams
            /\ \A k \in DOMAIN rk_result :
                /\ rk_result[k][2] = (rk_count - (k - 1)) + ex_aequo(k)
                /\ rk_result[k][2] = rk_count - higher(k)
                /\ (\A j \in DOMAIN raw : raw[j] <= raw[k])
                       => rk_result[k][2] = rk_count

\* the example of the specification: N = 4, [(1,50),(2,50),(3,30),(4,10)]
\* gives {1:4, 2:4, 3:2, 4:1}
C1_Witness ==
    /\ rk_done
    /\ rk_count = 4
    /\ rk_input = <<<<1, 50>>, <<2, 50>>, <<3, 30>>, <<4, 10>>>>
    /\ RankOf(1) = 4 /\ RankOf(2) = 4 /\ RankOf(3) = 2 /\ RankOf(4) = 1

\* C2: when the pairs are over the registered teams 1..team_count, every
\* ranking-points value returned lies in [1, team_count].
C2_RankingPointsInRange ==
    (rk_done /\ InputTeams \subseteq 1 .. rk_count) =>
        \A k \in DOMAIN rk_result : rk_result[k][2] \in 1 .. rk_count

\* every registered team has a score, all distinct: both ends of the range
\* are reached
C2_Witness ==
    /\ rk_done
    /\ rk_count = 3
    /\ InputTeams = 1 .. 3
    /\ \E t \in InputTeams : RankOf(t) = 1
    /\ \E t \in InputTeams : RankOf(t) = rk_count

\* first position of the block of tied teams that position k belongs to
RECURSIVE BlockStartOf(_, _)
BlockStartOf(raw, k) ==
    IF k > 1 /\ raw[k - 1] = raw[k] THEN BlockStartOf(raw, k - 1) ELSE k

\* C3: two teams with equal raw points receive equal ranking points, for
\* tied blocks of any size, and the team right after a tied block of size
\* size whose first member is at 0-based position p receives N - p - size.
C3_TieInvariant ==
    rk_done =>
        LET raw == WalkRaw IN
        /\ \A j, k \in DOMAIN rk_result :
               raw[j] = raw[k] => rk_result[j][2] = rk_result[k][2]
        /\ \A next \in DOMAIN rk_result :
               (next > 1 /\ raw[next] # raw[next - 1]) =>
                   LET first == BlockStartOf(raw, next - 1)
                       p == first - 1
                       size == next - first
                   IN  rk_result[next][2] = rk_count - p - size

\* a tied block of three teams followed by a fourth team, which receives
\* N - 0 - 3
C3_Witness ==
    /\ rk_done
    /\ rk_count = 4
    /\ Len(rk_result) = 4
    /\ BlockStartOf(WalkRaw, 3) = 1
    /\ WalkRaw[4] # WalkRaw[3]
    /\ rk_result[1][2] = 4 /\ rk_result[2][2] = 4 /\ rk_result[3][2] = 4
    /\ rk_result[4][2] = 1

\* C4: a team with strictly higher raw points never receives lower ranking
\* points than a team with lower raw points.
C4_Monotonic ==
    rk_done =>
        LET raw == WalkRaw IN
        \A j, k \in DOMAIN rk_result :
            raw[j] > raw[k] => rk_result[j][2] >= rk_result[k][2]

\* the lower-scored team comes first in the input list
C4_Witness ==
    /\ rk_done
    /\ Len(rk_input) >= 2
    /\ rk_input[1][2] < rk_input[2][2]
    /\ RankOf(rk_input[1][1]) < RankOf(rk_input[2][1])

(***************************************************************************)
(* Properties of evaluate(), checked under SpecScore.                      *)
(***************************************************************************)
\* C16: RoboticsScore.evaluate() returns the action credits plus
\* MATCH_DURATION - total_time when the credits equal max_action_credits()
\* and total_time < MATCH_DURATION, and the credits alone otherwise; the time
\* bonus is never negative.  With a maximum of 8: 90 s gives 68, 150 s gives
\* 8, credits below the maximum give the credits.
C16_RoboticsEvaluate ==
    (ret.op = "evaluate" /\ IsSubclass(ret.arg.type, "RoboticsScore")) =>
        LET credit == ret.arg.credit
            total_time == ret.arg.total_time
            bonus == ret.num - credit
        IN  /\ (credit = max_action_credits /\ total_time < MATCH_DURATION)
                   => ret.num = credit + (MATCH_DURATION - total_time)
            /\ ~(credit = max_action_credits /\ total_time < MATCH_DURATION)
                   => ret.num = credit
            /\ bonus >= 0
            /\ (credit = 8 /\ total_time = 90) => ret.num = 68
            /\ (credit = 8 /\ total_time = 150) => ret.num = 8
            /\ credit < max_action_credits => ret.num = credit

\* a score with all the credits whose stopwatch is over MATCH_DURATION has
\* been evaluated
C16_Witness ==
    /\ ret.op = "evaluate"
    /\ ret.arg.type = "Round1Score"
    /\ ret.arg.credit = max_action_credits
    /\ ret.arg.total_time > MATCH_DURATION

\* C17: ResearchEvaluationScore.evaluate() returns topic + research +
\* presentation + poster when shown is true and 0 when it is false,
\* whatever the sub-scores; JuryEvaluationScore.evaluate() returns the
\* evaluation.
C17_EvaluationsEvaluate ==
    ret.op = "evaluate" =>
        /\ ret.arg.type = "ResearchEvaluationScore" =>
               /\ ret.arg.shown =>
                      ret.num = ret.arg.topic + ret.arg.research
                                + ret.arg.presentation + ret.arg.poster
               /\ ~ret.arg.shown => ret.num = 0
        /\ ret.arg.type = "JuryEvaluationScore" => ret.num = ret.arg.evaluation

\* a research work that was not shown, with the sub-scores 5, 10, 8 and 7,
\* has been evaluated
C17_Witness ==
    /\ ret.op = "evaluate"
    /\ ret.arg.type = "ResearchEvaluationScore"
    /\ ~ret.arg.shown
    /\ ret.arg.topic + ret.arg.research + ret.arg.presentation + ret.arg.poster = 30

(***************************************************************************)
(* Properties of a Round, checked under SpecRound.                         *)
(***************************************************************************)
StoredTeams == DOMAIN round_.scores

\* number of stored scores that evaluate strictly higher than team's
StoredHigherThan(team) ==
    Cardinality({u \in StoredTeams :
        evaluate(round_.scores[u]) > evaluate(round_.scores[team])})

\* C8: get_results(team_count) returns a mapping whose keys are exactly the
\* team numbers 1..team_count; a team with a stored score maps to (evaluate()
\* of that score, its ranking points over all stored scores), a team with no
\* entry to (0, 0).
C8_GetResults ==
    \A n_teams \in RoundTeamCounts :
        LET res == get_results(round_, n_teams) IN
        /\ DOMAIN res = 1 .. n_teams
        /\ \A t \in 1 .. n_teams :
            IF t \in StoredTeams
            THEN /\ res[t].score = evaluate(round_.scores[t])
                 /\ res[t].rank = n_teams - StoredHigherThan(t)
            ELSE res[t] = RoundScorePoints(0, 0)

\* get_results(3) on a Round where team 1 is beaten by team 2, team 3 has no
\* entry and a score is stored under a number outside 1..3
C8_Witness ==
    /\ ret.op = "get_results"
    /\ ret.num = 3
    /\ StoredTeams = {0, 1, 2}
    /\ get_results(round_, 3)[1].rank = 2
    /\ get_results(round_, 3)[2].rank = 3
    /\ get_results(round_, 3)[2].score = 68
    /\ get_results(round_, 3)[3] = RoundScorePoints(0, 0)

\* C9 as stated: add_team_score stores the score, replacing any prior entry,
\* when team_number is a positive integer and score is a non-null instance of
\* the Round's score_type; in every other case (team_number zero or negative,
\* null score, score of another variant) it fails with an invalid-argument
\* error.
C9_AddTeamScoreRejectsNonPositive ==
    ret.op = "add_team_score" =>
        IF ret.num > 0 /\ ret.arg # NoScore /\ ret.arg.type = round_.score_type
        THEN /\ ret.exc = "none"
             /\ ret.num \in StoredTeams
             /\ round_.scores[ret.num] = ret.arg
        ELSE ret.exc = "ValueError"

\* C18: the score_type of a Round is the one of its construction, and after
\* any sequence of add_team_score and clear_team_score every score stored
\* is of exactly that score_type, neither of another variant nor of a
\* sub-variant, with at most one score for a team.
C18_RoundTypeInvariant ==
    /\ round_.score_type \in RoundScoreTypes
    /\ \A team \in StoredTeams : round_.scores[team].type = round_.score_type

(***************************************************************************)
(* Properties of the Tournament, checked under Spec.                       *)
(***************************************************************************)
RegisteredTeams == 1 .. Len(teams)

\* the team numbers with an entry in some robotics Round
RoboticsTeams ==
    UNION {DOMAIN robotics_rounds[i].scores : i \in DOMAIN robotics_rounds}

\* ranking points of a team in one Round, by the rule of C1: N minus the
\* number of stored scores that evaluate strictly higher, 0 without an entry
RankingPointsIn(rnd, team) ==
    IF team \in DOMAIN rnd.scores
    THEN team_count
         - Cardinality({u \in DOMAIN rnd.scores :
               evaluate(rnd.scores[u]) > evaluate(rnd.scores[team])})
    ELSE 0

RECURSIVE SumOfRounds(_, _)
SumOfRounds(i, team) ==
    IF i > Len(robotics_rounds) THEN 0
    ELSE RankingPointsIn(robotics_rounds[i], team) + SumOfRounds(i + 1, team)

\* the sum over all robotics Rounds of a team's ranking points
RoboticsSum(team) == SumOfRounds(1, team)

\* C7: get_robotics_results returns, for every registered team,
\* RoundScorePoints(score, rank): score is the sum over all robotics Rounds of
\* the team's ranking points in that Round (0 for a Round without entry), rank
\* the ranking points of that sum among the sums, with N = team_count; a team
\* with no entry in any robotics Round gets (0, 0).
C7_RoboticsResults ==
    LET res == get_robotics_results IN
    /\ DOMAIN res = RegisteredTeams
    /\ \A t \in RegisteredTeams :
        /\ res[t].score = RoboticsSum(t)
        /\ res[t].rank =
               IF t \in RoboticsTeams
               THEN team_count
                    - Cardinality({u \in RoboticsTeams :
                          RoboticsSum(u) > RoboticsSum(t)})
               ELSE 0
        /\ t \notin RoboticsTeams => res[t] = RoundScorePoints(0, 0)

\* three teams: team 1 wins both Rounds, team 2 played the first only, team 3
\* played none
C7_Witness ==
    /\ team_count = 3
    /\ DOMAIN robotics_rounds[1].scores = {1, 2}
    /\ DOMAIN robotics_rounds[2].scores = {1}
    /\ get_robotics_results[1] = RoundScorePoints(6, 3)
    /\ get_robotics_results[2] = RoundScorePoints(2, 2)
    /\ get_robotics_results[3] = RoundScorePoints(0, 0)

\* the combined total of a registered team from the three result mappings,
\* a component without a recorded score counting 0
TotalFrom(robotics, research, jury, team) ==
    (IF team \in RoboticsTeams THEN robotics[team].rank ELSE 0)
    + (IF team \in DOMAIN research_evaluations.scores
       THEN research[team].rank ELSE 0)
    + (IF team \in DOMAIN jury_evaluations.scores THEN jury[team].rank ELSE 0)
    + bonus_points(teams[team].level)

\* the combined totals of the registered teams
Totals ==
    LET robotics == get_robotics_results
        research == get_research_evaluation_results
        jury == get_team_evaluation_results
    IN  [t \in RegisteredTeams |-> TotalFrom(robotics, research, jury, t)]

\* the ranks of the entries of a final ranking that list a team
EntryRanks(final, team) ==
    {final[i][1] : i \in {j \in DOMAIN final : team \in Range(final[j][2])}}

\* C5: get_final_ranking orders the registered teams by the combined total
\* robotics.rank + research.rank + jury.rank + scholar bonus: a strictly higher
\* total is placed in a strictly better (lower-numbered) entry, equal totals in
\* the same entry.
C5_FinalRankingOrder ==
    LET final == get_final_ranking
        total == Totals
        entry == [t \in RegisteredTeams |-> EntryRanks(final, t)]
    IN  /\ \A t \in RegisteredTeams : Cardinality(entry[t]) = 1
        /\ \A t, u \in RegisteredTeams :
            /\ total[t] > total[u] =>
                   \A rt \in entry[t], ru \in entry[u] : rt < ru
            /\ total[t] = total[u] => entry[t] = entry[u]

\* a team with all three components recorded is placed first, the two teams
\* without any score tie behind it on their bonus alone, although the first
\* team has no bonus
C5_Witness ==
    /\ Len(teams) = 3
    /\ 1 \in RoboticsTeams
    /\ 1 \in DOMAIN research_evaluations.scores
    /\ 1 \in DOMAIN jury_evaluations.scores
    /\ 2 \notin RoboticsTeams \cup DOMAIN research_evaluations.scores
                 \cup DOMAIN jury_evaluations.scores
    /\ bonus_points(teams[1].level) = 0
    /\ Totals[2] = 1 /\ Totals[3] = 1
    /\ get_final_ranking = << <<1, <<1>> >>, <<2, <<2, 3>> >> >>

\* C6: in the list returned by get_final_ranking the entries are in strictly
\* ascending rank order, the first entry has rank 1 and every later entry's
\* rank is the previous entry's rank plus the previous entry's group size.
C6_FinalRankingRanks ==
    LET final == get_final_ranking IN
    /\ final # <<>> => final[1][1] = 1
    /\ \A i \in 2 .. Len(final) :
        /\ final[i][1] > final[i - 1][1]
        /\ final[i][1] = final[i - 1][1] + Len(final[i - 1][2])

\* teams 1 and 2 tie with the highest total and team 3 follows: the entries
\* are (1, [1, 2]) and (3, [3])
C6_Witness ==
    /\ Len(teams) = 3
    /\ Totals[1] = 10 /\ Totals[2] = 10 /\ Totals[3] < 10
    /\ get_final_ranking = << <<1, <<1, 2>> >>, <<3, <<3>> >> >>

\* the Rounds of the Tournament and the scores of the declared type of one
AllRounds == robotics_rounds \o <<research_evaluations, jury_evaluations>>

ValidScoresOf(rnd) ==
    {s \in RoboticsScoreArgs \cup ResearchScoreArgs \cup JuryScoreArgs :
        s # NoScore /\ s.type = rnd.score_type}

\* C10: a (team, Round) pair is either pending (no entry) or recorded (entry
\* present); in every reachable state, also after get_final_ranking was read,
\* add_team_score with a valid score leads to recorded, from pending and from
\* recorded (overwriting), and clear_team_score leads to pending: no state
\* locks a score.
C10_NoLockedState ==
    /\ \A team_num \in ScoreTeamNums, round_num \in RoundNums :
        /\ ENABLED ClearRoboticsScore(team_num, round_num)
        /\ \A score \in ValidScoresOf(robotics_rounds[round_num]) :
               ENABLED SetRoboticsScore(team_num, round_num, score)
    /\ \A i \in DOMAIN AllRounds, team_num \in ScoreTeamNums :
        LET rnd == AllRounds[i]
            cleared == clear_team_score(rnd, team_num)
        IN  /\ team_num \notin DOMAIN cleared.scores
            /\ \A u \in DOMAIN rnd.scores \ {team_num} :
                   u \in DOMAIN cleared.scores /\ cleared.scores[u] = rnd.scores[u]
            /\ \A score \in ValidScoresOf(rnd) :
                LET call == add_team_score(rnd, team_num, score) IN
                /\ call.exc = "none"
                /\ team_num \in DOMAIN call.round.scores
                /\ call.round.scores[team_num] = score
                /\ call.round.score_type = rnd.score_type

\* right after get_final_ranking was read, with team 1 recorded in the first
\* robotics Round and team 2 pending there
C10_Witness ==
    /\ ret.op = "get_final_ranking"
    /\ Len(get_final_ranking) > 0
    /\ 1 \in DOMAIN robotics_rounds[1].scores
    /\ 2 \notin DOMAIN robotics_rounds[1].scores
    /\ \E score \in ValidScoresOf(robotics_rounds[1]) :
           /\ score # robotics_rounds[1].scores[1]
           /\ add_team_score(robotics_rounds[1], 1, score).round.scores[1] = score

(***************************************************************************)
(* SpecReport: Tournaments of three and of four robotics Rounds, whose     *)
(* entries are set and cleared and which are read by                       *)
(* get_completion_status and get_compiled_scores.  For a read, ret.arg is  *)
(* what the read returned.                                                 *)
(***************************************************************************)
\* the robotics score types the Tournaments are constructed with: the first
\* three or all four of them
ReportScoreTypes == <<"Round1Score", "Round2Score", "Round1Score", "Round2Score">>

ReportRoundCounts == {Len(ReportScoreTypes) - 1, Len(ReportScoreTypes)}

\* the round numbers offered to set/clear_robotics_score
ReportRoundNums == 1 .. Len(ReportScoreTypes)

\* the team numbers offered to set/clear_research_evaluation and to
\* set/clear_jury_evaluation
ReportResearchTeams == {1}
ReportJuryTeams == {2}

InitReport ==
    /\ \E n \in ReportRoundCounts :
          robotics_rounds = [i \in 1 .. n |-> Round(ReportScoreTypes[i])]
    /\ teams = <<>>
    /\ team_count = 0
    /\ team_numbers = <<>>
    /\ research_evaluations = Round("ResearchEvaluationScore")
    /\ jury_evaluations = Round("JuryEvaluationScore")
    /\ planning = << <<14, 30>>, <<15, 45>>, <<19, 30>>, <<20, 30>> >>
    /\ ret = IdleRet
    /\ round_ = IdleRound
    /\ RankIdle

\* Tournament.get_completion_status
GetCompletionStatus ==
    /\ ret' = Ret("get_completion_status", 0, get_completion_status, "none")
    /\ UNCHANGED tournament_vars
    /\ UNCHANGED round_
    /\ UNCHANGED rank_vars

\* Tournament.get_compiled_scores
GetCompiledScores ==
    /\ ret' = Ret("get_compiled_scores", 0, get_compiled_scores, "none")
    /\ UNCHANGED tournament_vars
    /\ UNCHANGED round_
    /\ UNCHANGED rank_vars

NextReport ==
    \/ \E team \in QueryTeamInputs : AddTeam(team)
    \/ \E team_num \in ScoreTeamNums, round_num \in ReportRoundNums,
          score \in QueryRoboticsScoreArgs :
           SetRoboticsScore(team_num, round_num, score)
    \/ \E team_num \in ScoreTeamNums, round_num \in ReportRoundNums :
           ClearRoboticsScore(team_num, round_num)
    \/ \E team_num \in ReportResearchTeams, score \in ResearchScores :
           SetResearchEvaluation(team_num, score)
    \/ \E team_num \in ReportResearchTeams : ClearResearchEvaluation(team_num)
    \/ \E team_num \in ReportJuryTeams, score \in QueryJuryScores :
           SetJuryEvaluation(team_num, score)
    \/ \E team_num \in ReportJuryTeams : ClearJuryEvaluation(team_num)
    \/ GetCompletionStatus
    \/ GetCompiledScores

SpecReport == InitReport /\ [][NextReport]_vars

(***************************************************************************)
(* SpecBonus: a Tournament of teams of far apart levels, with jury         *)
(* evaluations, read by get_final_ranking.                                 *)
(***************************************************************************)
\* the teams offered to add_team: the oldest level, the youngest and one in
\* between
BonusTeamInputs ==
    {Team("A", POST_BAC), Team("B", CM1), Team("C", SIXIEME)}

\* the team numbers offered to the jury evaluation operations
BonusTeamNums == 1 .. Cardinality(BonusTeamInputs)

NextBonus ==
    \/ \E team \in BonusTeamInputs : AddTeam(team)
    \/ \E team_num \in BonusTeamNums, score \in JuryScores :
           SetJuryEvaluation(team_num, score)
    \/ \E team_num \in BonusTeamNums : ClearJuryEvaluation(team_num)
    \/ GetFinalRanking

SpecBonus == Init /\ [][NextBonus]_vars

(***************************************************************************)
(* SpecRestore: from_dict and load_teams applied to a Tournament that may  *)
(* already hold teams and scores.                                          *)
(***************************************************************************)
\* the Tournament object made of the state
Self ==
    [robotics_score_types |-> robotics_score_types,
     teams |-> teams,
     team_count |-> team_count,
     team_numbers |-> team_numbers,
     robotics_rounds |-> robotics_rounds,
     research_evaluations |-> research_evaluations,
     jury_evaluations |-> jury_evaluations,
     planning |-> planning]

\* the team lists offered to load_teams and found in a dictionary
RestoreTeamLists == {<<>>, <<Team("B", TERMINALE)>>}

\* the dictionaries of a Round without entry and of a Round with the entry
\* score of team 1, as Round.as_dict makes them
RestoreRoundDicts(score_type, score) ==
    {Round_as_dict(Round(score_type)),
     Round_as_dict(add_team_score(Round(score_type), 1, score).round)}

\* the dictionaries offered to from_dict, as as_dict makes them: with and
\* without a team, an entry in the first robotics Round, a research
\* evaluation and a jury evaluation
RestoreDicts ==
    {[teams |-> team_list,
      planning |-> [i \in 1 .. Len(Tournament(robotics_score_types).planning) |->
                       time_str(Tournament(robotics_score_types).planning[i])],
      robotics_rounds |-> <<first, Round_as_dict(Round(robotics_score_types[2]))>>,
      research_evaluations |-> research,
      jury_evaluations |-> jury] :
        team_list \in RestoreTeamLists,
        first \in RestoreRoundDicts(robotics_score_types[1],
                     [type |-> "Round1Score", total_time |-> 90, credit |-> 5]),
        research \in RestoreRoundDicts("ResearchEvaluationScore",
                     [type |-> "ResearchEvaluationScore", shown |-> TRUE,
                      topic |-> 1, research |-> 2, presentation |-> 3,
                      poster |-> 4]),
        jury \in RestoreRoundDicts("JuryEvaluationScore",
                     [type |-> "JuryEvaluationScore", evaluation |-> 7])}

\* Tournament.load_teams
LoadTeams(data) ==
    \E loaded \in {load_teams(Self, data)} :
    /\ teams' = loaded.teams
    /\ team_count' = loaded.team_count
    /\ team_numbers' = loaded.team_numbers
    /\ ret' = Ret("load_teams", 0, NoScore, "none")
    /\ UNCHANGED <<robotics_rounds, research_evaluations, jury_evaluations,
                   planning, round_>>
    /\ UNCHANGED rank_vars

\* Tournament.from_dict on the Tournament as it is; the dictionary is kept in
\* ret.arg
FromDict(d) ==
    \E loaded \in {from_dict(Self, d)} :
    /\ teams' = loaded.teams
    /\ team_count' = loaded.team_count
    /\ team_numbers' = loaded.team_numbers
    /\ robotics_rounds' = loaded.robotics_rounds
    /\ research_evaluations' = loaded.research_evaluations
    /\ jury_evaluations' = loaded.jury_evaluations
    /\ planning' = loaded.planning
    /\ ret' = Ret("from_dict", 0, d, "none")
    /\ UNCHANGED round_
    /\ UNCHANGED rank_vars

NextRestore ==
    \/ \E team \in QueryTeamInputs : AddTeam(team)
    \/ \E round_num \in RoundNums, score \in QueryRoboticsScoreArgs :
           SetRoboticsScore(1, round_num, score)
    \/ \E team_num \in ScoreTeamNums, score \in ResearchScores :
           SetResearchEvaluation(team_num, score)
    \/ \E score \in QueryJuryScores : SetJuryEvaluation(1, score)
    \/ \E data \in RestoreTeamLists : LoadTeams(data)
    \/ \E d \in RestoreDicts : FromDict(d)

SpecRestore == Init /\ [][NextRestore]_vars

(***************************************************************************)
(* SpecFrame: a Tournament whose entries are set and cleared, with         *)
(* accepted and rejected scores.                                           *)
(***************************************************************************)
\* the scores offered to the robotics Rounds: one valid score of each Round,
\* which is of another variant for the other Round, and None
FrameRoboticsScoreArgs == QueryRoboticsScoreArgs \cup {NoScore}

NextFrame ==
    \/ \E team \in QueryTeamInputs : AddTeam(team)
    \/ \E team_num \in ScoreTeamNums, round_num \in RoundNums,
          score \in FrameRoboticsScoreArgs :
           SetRoboticsScore(team_num, round_num, score)
    \/ \E team_num \in ScoreTeamNums, round_num \in RoundNums :
           ClearRoboticsScore(team_num, round_num)
    \/ \E team_num \in ScoreTeamNums, score \in ResearchScoreArgs :
           SetResearchEvaluation(team_num, score)
    \/ \E team_num \in ScoreTeamNums : ClearResearchEvaluation(team_num)
    \/ \E team_num \in ScoreTeamNums, score \in JuryScoreArgs :
           SetJuryEvaluation(team_num, score)
    \/ \E team_num \in ScoreTeamNums : ClearJuryEvaluation(team_num)

SpecFrame == Init /\ [][NextFrame]_vars

(***************************************************************************)
(* SpecEditor: the robotics score editors of the administration pages      *)
(* (admin.py 165-167 and 280-293) posting forms to a Tournament.  A form   *)
(* gives, for each team number, the fields total_time_<n>, a "m:ss" text   *)
(* held as the list of the numbers between its colons, and the action      *)
(* fields of the team, summed up in credit.                                *)
(***************************************************************************)
\* A faulty conversion that forgets the seconds.
MMSS_to_seconds_minutes_only(s) ==
    IF Len(s) # 2 THEN [value |-> 0, exc |-> "ValueError"]
    ELSE [value |-> s[1] * 60, exc |-> "none"]

\* MMSS_to_seconds: `minutes, seconds = s.split(':')` raises ValueError
\* unless the text has exactly two fields
MMSS_to_seconds(s) ==
    IF Len(s) # 2 THEN [value |-> 0, exc |-> "ValueError"]
    ELSE [value |-> s[1] * 60 + s[2], exc |-> "none"]

\* the loop of AdminRoboticsRoundScoreEditor.post over the team numbers nums:
\* the robotics Rounds it leaves and the exception that ended it, if any
RECURSIVE PostTeams(_, _, _, _)
PostTeams(rounds, round_num, form, nums) ==
    IF nums = <<>> THEN [robotics_rounds |-> rounds, exc |-> "none"]
    ELSE LET team_num == Head(nums)
             total_time == MMSS_to_seconds(form[team_num].total_time)
         IN  IF total_time.exc # "none"
             THEN [robotics_rounds |-> rounds, exc |-> total_time.exc]
             ELSE IF total_time.value # 0
             THEN LET score == [type |-> rounds[round_num].score_type,
                                total_time |-> total_time.value,
                                credit |-> form[team_num].credit]
                      \* Tournament.set_robotics_score
                      call == add_team_score(rounds[round_num], team_num, score)
                  IN  IF call.exc # "none"
                      THEN [robotics_rounds |-> rounds, exc |-> call.exc]
                      ELSE PostTeams([rounds EXCEPT ![round_num] = call.round],
                                     round_num, form, Tail(nums))
             \* Tournament.clear_robotics_score
             ELSE PostTeams([rounds EXCEPT
                                ![round_num] = clear_team_score(@, team_num)],
                            round_num, form, Tail(nums))

\* what a form holds for one team: a zero time, two times that are not zero
\* (one of less than a minute) and a text without colon
EditorEntries ==
    {[total_time |-> <<0, 0>>, credit |-> 5],
     [total_time |-> <<0, 45>>, credit |-> 5],
     [total_time |-> <<1, 30>>, credit |-> 8],
     [total_time |-> <<90>>, credit |-> 5]}

\* tournament.team_nums(present_only=True): the numbers, in ascending order,
\* of the teams that are present
team_nums_present(present) ==
    KeysInOrder(Range(team_numbers) \cap present)

\* AdminRoboticsRoundScoreEditor.post of the editor of Round round_num, the
\* teams of present being the ones present; the form and the teams present
\* are kept in ret.arg
Post(round_num, present, form) ==
    /\ round_num \in 1 .. Len(robotics_rounds)
    /\ \E done \in {PostTeams(robotics_rounds, round_num, form,
                               team_nums_present(present))} :
        /\ robotics_rounds' = done.robotics_rounds
        /\ ret' = Ret("post", round_num, [form |-> form, present |-> present],
                      done.exc)
    /\ UNCHANGED <<teams, team_count, team_numbers, research_evaluations,
                   jury_evaluations, planning, round_>>
    /\ UNCHANGED rank_vars

NextEditor ==
    \/ \E team \in QueryTeamInputs : AddTeam(team)
    \/ \E round_num \in RoundNums, present \in SUBSET Range(team_numbers) :
           \E form \in [present -> EditorEntries] :
               Post(round_num, present, form)

SpecEditor == Init /\ [][NextEditor]_vars

(***************************************************************************)
(* SpecRoster: the roster of a Tournament, driven by add_team and read by  *)
(* get_team.                                                               *)
(***************************************************************************)
\* the teams offered to add_team: those of Spec, and two teams whose level
\* is next to the bounds of ScholarLevel on the outside
RosterTeamInputs ==
    TeamInputs \cup {Team("C", CM1 + 1), Team("D", POST_BAC - 1)}

\* the team numbers offered to get_team: 0 up to one more than the longest
\* roster
RosterTeamNums == 0 .. Cardinality(RosterTeamInputs) + 1

NextRoster ==
    \/ \E team \in RosterTeamInputs : AddTeam(team)
    \/ \E team_num \in RosterTeamNums : GetTeam(team_num)

SpecRoster == Init /\ [][NextRoster]_vars

(***************************************************************************)
(* Properties of the roster, checked under SpecRoster.                     *)
(***************************************************************************)
\* a team equal to team, of the same name and the same level, is registered
Registered(team) ==
    \E i \in 1 .. Len(teams) :
        teams[i].name = team.name /\ teams[i].level = team.level

C15_RosterLevelsValid ==
    /\ \A i \in 1 .. Len(teams) : is_valid(teams[i].level)
    /\ ret.op = "add_team" /\ ret.exc = "none" => is_valid(teams[ret.num].level)

(***************************************************************************)
(* Properties of the set/clear/query surface, checked under SpecQuery.     *)
(***************************************************************************)
\* after is before without the entry of team: the entry is gone, the other
\* entries and the score type are kept, a Round without the entry is left
\* as it was, and the query for the team raises KeyError
Cleared(before, after, team) ==
    /\ DOMAIN after.scores = DOMAIN before.scores \ {team}
    /\ \A other \in DOMAIN after.scores : after.scores[other] = before.scores[other]
    /\ after.score_type = before.score_type
    /\ team \notin DOMAIN before.scores => after = before
    /\ get_team_score(after, team).exc = "KeyError"

\* C11: clear_robotics_score, clear_research_evaluation and
\* clear_jury_evaluation (all of them Round.clear_team_score) remove the
\* entry of the team if there is one and raise nothing if there is none; a
\* second clear leaves the state of the first; the query for the team then
\* raises KeyError.
C11_ClearRemovesEntry ==
    [][ /\ \A team_num \in ScoreTeamNums, round_num \in RoundNums :
              ClearRoboticsScore(team_num, round_num) =>
                  /\ ret'.exc = "none"
                  /\ Cleared(robotics_rounds[round_num],
                             robotics_rounds'[round_num], team_num)
                  /\ \A other \in RoundNums \ {round_num} :
                         robotics_rounds'[other] = robotics_rounds[other]
        /\ \A team_num \in ScoreTeamNums :
              ClearResearchEvaluation(team_num) =>
                  /\ ret'.exc = "none"
                  /\ Cleared(research_evaluations, research_evaluations', team_num)
        /\ \A team_num \in ScoreTeamNums :
              ClearJuryEvaluation(team_num) =>
                  /\ ret'.exc = "none"
                  /\ Cleared(jury_evaluations, jury_evaluations', team_num)
        /\ \A team_num \in QueryTeamNums :
              /\ (ret.op = "clear_team_score" /\ GetResearchEvaluation(team_num)
                      /\ team_num \notin DOMAIN research_evaluations.scores)
                  => ret'.exc = "KeyError"
              /\ (ret.op = "clear_team_score" /\ GetJuryEvaluation(team_num)
                      /\ team_num \notin DOMAIN jury_evaluations.scores)
                  => ret'.exc = "KeyError"
              /\ \A round_num \in RoundNums :
                  (ret.op = "clear_team_score"
                      /\ GetRoboticsScore(team_num, round_num)
                      /\ team_num \notin DOMAIN robotics_rounds[round_num].scores)
                  => ret'.exc = "KeyError"
      ]_vars

\* a clear has just run; team 1 has no research evaluation left while team 2
\* keeps its own, and no other Round misses an entry: the clear was that of
\* the research evaluation of team 1
C11_Witness ==
    /\ ret.op = "clear_team_score"
    /\ DOMAIN research_evaluations.scores = {2}
    /\ DOMAIN jury_evaluations.scores = {1, 2}
    /\ \A round_num \in RoundNums : DOMAIN robotics_rounds[round_num].scores = {1, 2}

\* C20: get_team_score, get_research_evaluation and get_jury_evaluation
\* raise KeyError exactly when the team has no entry, and return the entry
\* otherwise; get_team(n) raises KeyError exactly when n is outside
\* 1 .. team_count, and returns the team of that number otherwise; a query,
\* failing or not, leaves the Tournament as it is.
C20_NotFound ==
    [][ \A team_num \in QueryTeamNums :
          /\ GetTeam(team_num) =>
                /\ ret'.exc = "KeyError" <=> team_num \notin 1 .. team_count
                /\ ret'.exc \in {"none", "KeyError"}
                /\ ret'.exc = "none" => ret'.arg = teams[team_num]
                /\ UNCHANGED tournament_vars
          /\ GetResearchEvaluation(team_num) =>
                /\ ret'.exc = "KeyError"
                       <=> team_num \notin DOMAIN research_evaluations.scores
                /\ ret'.exc \in {"none", "KeyError"}
                /\ ret'.exc = "none"
                       => ret'.arg = research_evaluations.scores[team_num]
                /\ UNCHANGED tournament_vars
          /\ GetJuryEvaluation(team_num) =>
                /\ ret'.exc = "KeyError"
                       <=> team_num \notin DOMAIN jury_evaluations.scores
                /\ ret'.exc \in {"none", "KeyError"}
                /\ ret'.exc = "none"
                       => ret'.arg = jury_evaluations.scores[team_num]
                /\ UNCHANGED tournament_vars
          /\ \A round_num \in RoundNums :
                GetRoboticsScore(team_num, round_num) =>
                    /\ ret'.exc = "KeyError"
                           <=> team_num \notin DOMAIN robotics_rounds[round_num].scores
                    /\ ret'.exc \in {"none", "KeyError"}
                    /\ ret'.exc = "none"
                           => ret'.arg = robotics_rounds[round_num].scores[team_num]
                    /\ UNCHANGED tournament_vars
      ]_vars

\* get_team has just failed for the number after the last one issued, with
\* two teams registered, while the research evaluation of team 2 is
\* recorded and that of team 1 is not
C20_Witness ==
    /\ ret.op = "get_team"
    /\ ret.exc = "KeyError"
    /\ team_count = 2
    /\ ret.num = team_count + 1
    /\ DOMAIN research_evaluations.scores = {2}

(***************************************************************************)
(* Properties of the team numbers, checked under Spec.                     *)
(***************************************************************************)
\* C14: team numbers are issued 1, 2, 3, ... in the order of registration
\* and are stable: the number add_team returns is one more than the number
\* of teams registered before, get_team of it returns the team added, and
\* get_team(n) of a number issued returns the same team after any step:
\* add_team accepted or refused, set or clear of a score.
C14_TeamNumbersStable ==
    [][ /\ \A team \in TeamInputs :
              (AddTeam(team) /\ ret'.exc = "none") =>
                  \A issued \in {Len(teams) + 1} :
                  /\ ret'.num = issued
                  /\ get_team(issued)' = [team |-> team, exc |-> "none"]
        /\ \A n \in 1 .. Len(teams) :
              /\ get_team(n).exc = "none"
              /\ get_team(n)' = get_team(n)
      ]_vars

\* the three teams offered are registered, the third one has just been
\* refused a second time, and scores are recorded for teams 1 and 2
C14_Witness ==
    /\ ret.op = "add_team"
    /\ ret.exc = "DuplicatedTeam"
    /\ Len(teams) = Cardinality(TeamInputs)
    /\ DOMAIN research_evaluations.scores = {1, 2}
    /\ DOMAIN robotics_rounds[1].scores = {1, 2}

(***************************************************************************)
(* The results computed from scratch: from the roster (teams) and the      *)
(* entries of the Rounds alone, without the team count and team numbers    *)
(* that add_team keeps up to date.                                         *)
(***************************************************************************)
\* the ranking points of a team in a Round: the number of teams of the roster
\* minus the number of entries that evaluate strictly higher
ScratchPoints(rnd, team) ==
    IF team \in DOMAIN rnd.scores
    THEN Len(teams)
         - Cardinality({u \in DOMAIN rnd.scores :
               evaluate(rnd.scores[u]) > evaluate(rnd.scores[team])})
    ELSE 0

ScratchRoundResults(rnd) ==
    [t \in 1 .. Len(teams) |->
        RoundScorePoints(IF t \in DOMAIN rnd.scores
                         THEN evaluate(rnd.scores[t]) ELSE 0,
                         ScratchPoints(rnd, t))]

RECURSIVE ScratchSum(_, _)
ScratchSum(i, team) ==
    IF i > Len(robotics_rounds) THEN 0
    ELSE ScratchPoints(robotics_rounds[i], team) + ScratchSum(i + 1, team)

ScratchRoboticsResults ==
    LET sum == [t \in RoboticsTeams \cup (1 .. Len(teams)) |-> ScratchSum(1, t)]
    IN  [t \in 1 .. Len(teams) |->
            RoundScorePoints(sum[t],
                IF t \in RoboticsTeams
                THEN Len(teams)
                     - Cardinality({u \in RoboticsTeams : sum[u] > sum[t]})
                ELSE 0)]

\* the entries of the final ranking for the teams of remaining, those of
\* the highest total first; the rank of an entry is one more than the
\* number of teams placed before it
RECURSIVE ScratchEntries(_, _)
ScratchEntries(total, remaining) ==
    IF remaining = {} THEN <<>>
    ELSE LET best == CHOOSE t \in remaining :
                         \A u \in remaining : total[t] >= total[u]
             group == {t \in remaining : total[t] = total[best]}
             rank == 1 + Len(teams) - Cardinality(remaining)
         IN  << <<rank, KeysInOrder(group)>> >>
             \o ScratchEntries(total, remaining \ group)

ScratchFinalRanking ==
    LET robotics == ScratchRoboticsResults
        research == ScratchRoundResults(research_evaluations)
        jury == ScratchRoundResults(jury_evaluations)
        total == [t \in 1 .. Len(teams) |->
                     robotics[t].rank + research[t].rank + jury[t].rank
                     + bonus_points(teams[t].level)]
    IN  ScratchEntries(total, 1 .. Len(teams))

\* C19: no result is cached: after any sequence of add_team and set/clear
\* operations, what a read returns (get_final_ranking, get_robotics_results,
\* the research and jury results) is what is computed from scratch from the
\* roster and the entries of that moment, so that a read after a correction
\* shows it.
C19_ResultsFromScratch ==
    ret.op = "get_final_ranking" =>
    /\ get_research_evaluation_results = ScratchRoundResults(research_evaluations)
    /\ get_team_evaluation_results = ScratchRoundResults(jury_evaluations)
    /\ get_robotics_results = ScratchRoboticsResults
    /\ get_final_ranking = ScratchFinalRanking

\* a read has just been made of a Tournament of two teams of the same
\* level where team 2 alone has a research evaluation, which places it
\* before team 1
C19_Witness ==
    /\ ret.op = "get_final_ranking"
    /\ Len(teams) = 2
    /\ teams[1].level = teams[2].level
    /\ DOMAIN research_evaluations.scores = {2}
    /\ get_final_ranking = << <<1, <<2>>>>, <<2, <<1>>>> >>

(***************************************************************************)
(* Properties of persistence, checked under SpecReload.                    *)
(***************************************************************************)
\* C12: the Tournament that from_dict fills, on a freshly constructed
\* Tournament with the same robotics score types, from the as_dict of a
\* Tournament has the same final ranking and the same robotics, research
\* and jury results, for every Tournament reached by add_team and the
\* set/clear operations.
C12_RoundTrip ==
    ret.op = "from_dict" =>
        /\ ret.exc = "none"
        /\ get_final_ranking = ret.arg.final
        /\ get_robotics_results = ret.arg.robotics
        /\ RoundResults = ret.arg.rounds
        /\ get_research_evaluation_results = ret.arg.research
        /\ get_team_evaluation_results = ret.arg.jury

\* a Tournament has just been loaded: two teams, team 1 with a robotics score
\* that earns the time bonus and a research evaluation, team 2 with a jury
\* evaluation, and a final ranking of two entries
C12_Witness ==
    /\ ret.op = "from_dict"
    /\ Len(teams) = 2
    /\ 1 \in DOMAIN robotics_rounds[1].scores
    /\ evaluate(robotics_rounds[1].scores[1]) > max_action_credits
    /\ 1 \in DOMAIN research_evaluations.scores
    /\ 2 \in DOMAIN jury_evaluations.scores
    /\ Len(get_final_ranking) = 2

(***************************************************************************)
(* Properties of the reporting reads, checked under SpecReport.            *)
(***************************************************************************)
\* the item of a CompiledScore for the robotics Round of position i; a
\* CompiledScore has no item for a Round after the third
RobItem(compiled, i) ==
    CASE i = 1 -> compiled.rob1
      [] i = 2 -> compiled.rob2
      [] i = 3 -> compiled.rob3
      [] OTHER -> None

\* evaluate() of the entry of a team in a Round, None without entry
RawPointsIn(rnd, team) ==
    IF team \in DOMAIN rnd.scores THEN Some(evaluate(rnd.scores[team])) ELSE None

\* C21: get_compiled_scores returns, for every registered team, the
\* evaluate() value of the entry of the team in each robotics Round by
\* position, in the research evaluations and in the jury evaluations, and
\* None exactly for the items without entry, for every robotics Round the
\* Tournament is configured with.
C21_CompiledScores ==
    ret.op = "get_compiled_scores" =>
        /\ DOMAIN ret.arg = 1 .. team_count
        /\ \A team \in 1 .. team_count :
            /\ \A i \in 1 .. Len(robotics_rounds) :
                   RobItem(ret.arg[team], i) = RawPointsIn(robotics_rounds[i], team)
            /\ ret.arg[team].research = RawPointsIn(research_evaluations, team)
            /\ ret.arg[team].jury = RawPointsIn(jury_evaluations, team)

\* C22: get_completion_status returns, for each robotics Round in the
\* sequence of the Tournament, for the research and for the jury
\* evaluations, one boolean per registered team in the order of the team
\* numbers, true iff the team has an entry in that Round at that moment.
C22_CompletionStatus ==
    ret.op = "get_completion_status" =>
        LET RightFor(status, rnd) ==
                /\ Len(status) = Len(teams)
                /\ \A team \in 1 .. Len(teams) :
                       status[team] = (team \in DOMAIN rnd.scores)
        IN  /\ Len(ret.arg.robotics) = Len(robotics_rounds)
            /\ \A i \in 1 .. Len(robotics_rounds) :
                   RightFor(ret.arg.robotics[i], robotics_rounds[i])
            /\ RightFor(ret.arg.research, research_evaluations)
            /\ RightFor(ret.arg.jury_eval, jury_evaluations)

\* the status of a Tournament of four Rounds and two teams has been read:
\* team 1 alone played the fourth Round and has a research evaluation, team
\* 2 alone played the first Round and has a jury evaluation
C22_Witness ==
    /\ ret.op = "get_completion_status"
    /\ Len(teams) = 2
    /\ Len(robotics_rounds) = 4
    /\ ret.arg.robotics[1] = <<FALSE, TRUE>>
    /\ ret.arg.robotics[4] = <<TRUE, FALSE>>
    /\ ret.arg.research = <<TRUE, FALSE>>
    /\ ret.arg.jury_eval = <<FALSE, TRUE>>

(***************************************************************************)
(* Properties of the scholar bonus, checked under SpecBonus.               *)
(***************************************************************************)
\* the number of levels between POST_BAC and a level in the declaration
LevelDistance(level) ==
    (CHOOSE k \in 1 .. Len(ScholarLevels) : ScholarLevels[k] = level) - 1

\* robotics.rank + research.rank + jury.rank of a team, a missing component
\* counting 0, plus the distance of the level of the team from POST_BAC
TotalWithDistance(team) ==
    RankIn(get_robotics_results, team)
    + RankIn(get_research_evaluation_results, team)
    + RankIn(get_team_evaluation_results, team)
    + LevelDistance(teams[team].level)

\* C23: bonus_points(level) is the ordinal distance of the level from
\* POST_BAC, 0 for POST_BAC and one more for each younger level up to CM1,
\* and the total get_final_ranking ranks a team by is the sum of its three
\* components plus exactly this bonus.
C23_ScholarBonus ==
    /\ bonus_points(POST_BAC) = 0
    /\ \A k \in 1 .. Len(ScholarLevels) :
           bonus_points(ScholarLevels[k]) = k - 1
    /\ \A k \in 1 .. Len(ScholarLevels) - 1 :
           bonus_points(ScholarLevels[k + 1]) = bonus_points(ScholarLevels[k]) + 1
    /\ \A team \in 1 .. Len(teams) :
           CombinedTotals[team] = <<team, TotalWithDistance(team)>>
    /\ LET final == get_final_ranking IN
        \A t, u \in 1 .. Len(teams) :
            TotalWithDistance(t) > TotalWithDistance(u) =>
                \A rt \in EntryRanks(final, t), ru \in EntryRanks(final, u) :
                    rt < ru

\* the final ranking has been read with a POST_BAC team and a CM1 team that
\* have the same jury evaluation: the totals differ by the bonus of 9 and
\* the CM1 team is first
C23_Witness ==
    /\ ret.op = "get_final_ranking"
    /\ Len(teams) = 2
    /\ teams[1].level = POST_BAC /\ teams[2].level = CM1
    /\ DOMAIN jury_evaluations.scores = {1, 2}
    /\ jury_evaluations.scores[1] = jury_evaluations.scores[2]
    /\ CombinedTotals[2][2] = CombinedTotals[1][2] + 9
    /\ get_final_ranking = << <<1, <<2>> >>, <<2, <<1>> >> >>

(***************************************************************************)
(* Range of the ranking points of the registered teams, checked under      *)
(* Spec.                                                                   *)
(***************************************************************************)
\* C24: after any sequence of add_team and set/clear score operations, every
\* registered team with an entry in a Round has ranking points in
\* 1 .. team_count in get_results(team_count) of that Round, and every
\* registered team with an entry in a robotics Round has ranking points in
\* 1 .. team_count in get_robotics_results.
C24_RecordedTeamsRanked ==
    /\ \A i \in 1 .. Len(AllRounds) :
        \A team \in RegisteredTeams \cap DOMAIN AllRounds[i].scores :
            get_results(AllRounds[i], team_count)[team].rank \in 1 .. team_count
    /\ \A team \in RegisteredTeams \cap RoboticsTeams :
            get_robotics_results[team].rank \in 1 .. team_count

(***************************************************************************)
(* Properties of from_dict and load_teams on a Tournament in use, checked  *)
(* under SpecRestore.                                                      *)
(***************************************************************************)
\* C25: after from_dict(d), whatever the Tournament held before, the
\* roster, every robotics Round, the research evaluations and the jury
\* evaluations hold exactly what d describes: as_dict gives d back.
C25_FromDictReplaces ==
    ret.op = "from_dict" =>
        /\ as_dict.teams = ret.arg.teams
        /\ as_dict.robotics_rounds = ret.arg.robotics_rounds
        /\ as_dict.research_evaluations = ret.arg.research_evaluations
        /\ as_dict.jury_evaluations = ret.arg.jury_evaluations

\* C29: after any sequence of add_team, load_teams and from_dict calls,
\* team_count is the number of teams of the roster and team_nums is the
\* sequence 1 .. team_count.
C29_RosterConsistent ==
    /\ team_count = Len(teams)
    /\ team_numbers = [i \in 1 .. team_count |-> i]

\* a roster of two teams made by add_team has been replaced by the one team
\* of a load_teams call, and the count and the numbers followed
C29_Witness ==
    /\ ret.op = "load_teams"
    /\ teams = <<Team("B", TERMINALE)>>
    /\ team_count = 1
    /\ team_numbers = <<1>>
    /\ 2 \in DOMAIN research_evaluations.scores

(***************************************************************************)
(* Frame of the set and clear operations, checked under SpecFrame.         *)
(***************************************************************************)
\* the entries of the teams other than team, and the score type, are the
\* same in the Rounds before and after
OthersKept(before, after, team) ==
    /\ after.score_type = before.score_type
    /\ DOMAIN after.scores \ {team} = DOMAIN before.scores \ {team}
    /\ \A other \in DOMAIN before.scores \ {team} :
           after.scores[other] = before.scores[other]

\* a set step: rejected it changes nothing of the Tournament, accepted it
\* leaves score as the entry of the team
SetEffect(before, after, team, score) ==
    /\ ret'.exc # "none" => after = before
    /\ ret'.exc = "none" =>
           /\ team \in DOMAIN after.scores
           /\ after.scores[team] = score
    /\ OthersKept(before, after, team)

\* C26: set_robotics_score and clear_robotics_score change only the entry of
\* the team in the robotics Round of that number, set/clear of a research or
\* jury evaluation change only the entry of the team in their own Round; the
\* other entries, the other Rounds, the roster, team_count and the planning
\* are unchanged, and a rejected call changes nothing.
C26_Frame ==
    [][ /\ \A team_num \in ScoreTeamNums, round_num \in RoundNums :
            /\ \A score \in FrameRoboticsScoreArgs :
                 SetRoboticsScore(team_num, round_num, score) =>
                    /\ SetEffect(robotics_rounds[round_num],
                                 robotics_rounds'[round_num], team_num, score)
                    /\ \A other \in RoundNums \ {round_num} :
                           robotics_rounds'[other] = robotics_rounds[other]
                    /\ Len(robotics_rounds') = Len(robotics_rounds)
                    /\ UNCHANGED <<teams, team_count, team_numbers, planning,
                                   research_evaluations, jury_evaluations>>
            /\ ClearRoboticsScore(team_num, round_num) =>
                    /\ OthersKept(robotics_rounds[round_num],
                                  robotics_rounds'[round_num], team_num)
                    /\ \A other \in RoundNums \ {round_num} :
                           robotics_rounds'[other] = robotics_rounds[other]
                    /\ Len(robotics_rounds') = Len(robotics_rounds)
                    /\ UNCHANGED <<teams, team_count, team_numbers, planning,
                                   research_evaluations, jury_evaluations>>
        /\ \A team_num \in ScoreTeamNums :
            /\ \A score \in ResearchScoreArgs :
                 SetResearchEvaluation(team_num, score) =>
                    /\ SetEffect(research_evaluations, research_evaluations',
                                 team_num, score)
                    /\ UNCHANGED <<teams, team_count, team_numbers, planning,
                                   robotics_rounds, jury_evaluations>>
            /\ ClearResearchEvaluation(team_num) =>
                    /\ OthersKept(research_evaluations, research_evaluations',
                                  team_num)
                    /\ UNCHANGED <<teams, team_count, team_numbers, planning,
                                   robotics_rounds, jury_evaluations>>
            /\ \A score \in JuryScoreArgs :
                 SetJuryEvaluation(team_num, score) =>
                    /\ SetEffect(jury_evaluations, jury_evaluations', team_num,
                                 score)
                    /\ UNCHANGED <<teams, team_count, team_numbers, planning,
                                   robotics_rounds, research_evaluations>>
            /\ ClearJuryEvaluation(team_num) =>
                    /\ OthersKept(jury_evaluations, jury_evaluations', team_num)
                    /\ UNCHANGED <<teams, team_count, team_numbers, planning,
                                   robotics_rounds, research_evaluations>>
      ]_vars

\* a call has just been rejected in a Tournament of two teams in which both
\* teams have an entry in the first robotics Round and team 1 has a research
\* and a jury evaluation
C26_Witness ==
    /\ ret.op = "add_team_score"
    /\ ret.exc = "ValueError"
    /\ Len(teams) = 2
    /\ DOMAIN robotics_rounds[1].scores = {1, 2}
    /\ DOMAIN research_evaluations.scores = {1}
    /\ DOMAIN jury_evaluations.scores = {1}

(***************************************************************************)
(* The teams of the final ranking, checked under Spec.                     *)
(***************************************************************************)
\* the team lists of the entries of a final ranking, one after the other
RECURSIVE ListedTeams(_)
ListedTeams(final) ==
    IF final = <<>> THEN <<>> ELSE Head(final)[2] \o ListedTeams(Tail(final))

\* C27: the team lists of the entries of get_final_ranking partition the
\* registered team numbers 1 .. team_count: every registered team is listed
\* once, with or without recorded score, and no other team number is listed,
\* even one a score is stored under.
C27_FinalRankingPartition ==
    ret.op = "get_final_ranking" =>
        LET listed == ListedTeams(get_final_ranking) IN
        /\ Len(listed) = team_count
        /\ Range(listed) = 1 .. team_count
        /\ \A i, j \in 1 .. Len(listed) : listed[i] = listed[j] => i = j

\* the final ranking has been read while the one registered team has no
\* score at all and a robotics score and a jury evaluation are stored under
\* the unregistered number 2: the ranking lists team 1 alone
C27_Witness ==
    /\ ret.op = "get_final_ranking"
    /\ Len(teams) = 1
    /\ 1 \notin RoboticsTeams \cup DOMAIN research_evaluations.scores
                 \cup DOMAIN jury_evaluations.scores
    /\ 2 \in RoboticsTeams
    /\ 2 \in DOMAIN jury_evaluations.scores
    /\ get_final_ranking = << <<1, <<1>> >> >>

(***************************************************************************)
(* Order independence of get_ranking_points, checked under SpecOrder.      *)
(***************************************************************************)
\* a list without its element of index i
WithoutIndex(s, i) == SubSeq(s, 1, i - 1) \o SubSeq(s, i + 1, Len(s))

\* every rearrangement of a list
RECURSIVE PermutationsOf(_)
PermutationsOf(s) ==
    IF s = <<>> THEN {<<>>}
    ELSE UNION {{<<s[i]>> \o rest : rest \in PermutationsOf(WithoutIndex(s, i))} :
                   i \in 1 .. Len(s)}

\* the mapping from team to ranking points of a list of pairs
AsMapping(pairs) ==
    [team \in {pairs[i][1] : i \in DOMAIN pairs} |-> DictGet(pairs, team, 0)]

\* C28: the mapping from team to ranking points produced by
\* get_ranking_points is the same for every rearrangement of the same input
\* pairs, so that results computed from the pairs of a dictionary do not
\* depend on the order in which its entries are met.
C28_OrderIndependent ==
    rk_done =>
        \A rearranged \in PermutationsOf(rk_input) :
            AsMapping(get_ranking_points(rearranged, rk_count))
                = AsMapping(rk_result)

\* three pairs, two of them tied for the first place: the list returned for
\* the input read backwards is another list, with the same points for each
\* team
C28_Witness ==
    /\ rk_done
    /\ rk_count = 3
    /\ rk_input = << <<3, 30>>, <<1, 50>>, <<2, 50>> >>
    /\ Cardinality(PermutationsOf(rk_input)) = 6
    /\ get_ranking_points(Reversed(rk_input), rk_count) # rk_result
    /\ AsMapping(rk_result) = [team \in 1 .. 3 |-> IF team = 3 THEN 1 ELSE 3]

(***************************************************************************)
(* Properties of the robotics score editor, checked under SpecEditor.      *)
(***************************************************************************)
\* the seconds of a "m:ss" text of two fields
SecondsOf(mmss) == 60 * mmss[1] + mmss[2]

====
